---- MODULE Spec2Model ----
(***************************************************************************)
(* Model of the go-core message brokers.                                   *)
(*                                                                         *)
(* Part I   the in-memory RabbitMQ broker (package rabbitmq, in-memory     *)
(*          variant): a mutex-guarded map from queue name to a buffered Go *)
(*          channel of capacity 100, Publish, Consume with its forwarding  *)
(*          goroutine, and Close.                                          *)
(*                                                                         *)
(* Part II  the Kafka broker (package kafka): per-topic writers and readers *)
(*          made by the factories, Publish, Consume with its reading       *)
(*          goroutine, Close, and ConsumeJSON's decoding goroutine.  The   *)
(*          kafka-go writer and reader are the environment.                *)
(*                                                                         *)
(* Part III the AMQP-backed RabbitMQ broker (rabbitmq.go): New, Publish,   *)
(*          Consume with its forwarding goroutine, Close.  The AMQP        *)
(*          connection and channel are the environment.                    *)
(*                                                                         *)
(* A behaviour runs one broker: Init picks the backend.                    *)
(*                                                                         *)
(* Go channel semantics used throughout: a send on a buffered channel      *)
(* proceeds when the buffer has room, a send on a closed channel panics, a *)
(* receive from a closed channel first drains the buffer and then yields   *)
(* the zero value, and a select among several ready cases picks any one of *)
(* them.  A panic that is not recovered ends the whole program.            *)
(***************************************************************************)
EXTENDS Integers, Sequences, FiniteSets, TLC

\* ------------------------------------------------------------------ bounds
MaxPub == 2          \* Publish calls made in one behaviour
MaxClose == 1        \* Close calls made in one behaviour
MaxRecv == 2         \* values a caller takes from one output channel
MaxFill == 102       \* Publish calls of the buffer-filling specification
MaxCloses == 2       \* Close calls of the handle-lifecycle behaviours
MaxNew == 2          \* New calls of the behaviours that start before New

\* -------------------------------------------------------- program constants
QueueCap == 100      \* make(chan []byte, 100)

Pubs == {"p1", "p2"}
Cons == {"c1", "c2"}
Topics == {"q"}
\* the topic names a registry may hold: those, and one more for the
\* behaviours on two topics
Names == Topics \cup {"b"}
Backends == {"mem", "kafka", "amqp"}
\* payloads: byte strings, among them the empty one and "hi"
Bodies == {<<>>, <<104, 105>>}
\* payloads of the Kafka behaviours: the JSON text "a" (with its quotes) and
\* the text {n, which is not JSON
KBodies == {<<34, 97, 34>>, <<123, 110>>}

\* The zero value a receive from a closed, drained channel yields: a nil
\* slice.  id 0 marks a value no Publish call produced.
NilMsg == [id |-> 0, body |-> <<>>, pub |-> "", topic |-> "", headers |-> {}]

VARIABLES
    backend,   \* which broker this behaviour runs
    otelEnabled, \* cfg.OtelEnabled (r.otelEnabled): the otel_enabled setting
    mu,        \* the broker's mu: "" when free, else the holder
    queues,    \* RabbitMQ.queues: queue name -> channel (0: no entry)
    chans,     \* the channels made so far: <<[buf, closed]>>
    writers,   \* Kafka.writers: topic -> writer (0: no entry)
    readers,   \* Kafka.readers: topic -> reader (0: no entry)
    ws,        \* the writers the factory made: <<[topic, closes, writes, last]>>
               \* (last: what WriteMessages last returned)
    rs,        \* the readers the factory made: <<[topic, closes, off]>>
               \* (of a handle: closes, the calls of its Close; cerr, one of
               \* them returned an error; born, the Close calls that had
               \* returned when the factory made it)
    topics,    \* the Kafka cluster: topic -> the messages written to it
    closing,   \* Kafka.Close: the map entries its two ranges have yet to visit,
               \* and whether a handle's Close has returned an error
    amqp,      \* the AMQP broker: broker, New has returned it; npc, where a
               \* running New call is; dials, the connections dialFunc
               \* returned; dropped, those of them New closed; news, what the
               \* New calls returned, in order.
               \* Its channel and connection: calls of QueueDeclare, of
               \* PublishWithContext, of the channel's Close and of the
               \* connection's Close; cpc, where a running Close call is;
               \* cerr, one of its two Close calls returned an error
    pubs,      \* one record per publishing goroutine (a Publish call): ret, what
               \* its last call returned ("nil", or the prefix of the error);
               \* cause, the text of the error that one wraps; nwrite, the
               \* WriteMessages calls the call made
    cons,      \* one record per Consume call, its goroutine and its caller
               \* (history fields: cancelAt, the Publish calls started when the
               \* context was canceled; regAt, the messages enqueued when the
               \* call was made; recv, what the caller received; err, the
               \* error the call returned; closes, the close(out) executed;
               \* reads, the ReadMessage calls made; rerr, one of them
               \* returned an error; started, the call started its goroutine;
               \* cause, the error of the backend that made the call fail)
    log,       \* history: the messages enqueued, in order, with their channel
    npub,      \* history: Publish calls started
    nclose,    \* history: Close calls started
    closed,    \* history: Close calls returned
    rets,      \* history: what the Close calls returned, in order
    jcalls,    \* history: the PublishJSON calls, in order: v, the value given;
               \* id, the message handed to Publish (0: Publish not called)
    panicked   \* an unrecovered panic has ended the program

mvars == <<queues, chans>>
kvars == <<writers, readers, ws, rs, topics, closing, jcalls>>
vars == <<backend, otelEnabled, mu, queues, chans, writers, readers, ws, rs, topics, closing,
          amqp, pubs, cons, log, npub, nclose, closed, rets, jcalls, panicked>>

IdlePub == [pc |-> "idle", msg |-> NilMsg, q |-> 0, canceled |-> FALSE,
            pre |-> FALSE, ret |-> "none", cause |-> "", nwrite |-> 0]
IdleCon == [pc |-> "idle", topic |-> "", q |-> 0, msg |-> NilMsg,
            canceled |-> FALSE, cancelAt |-> 0, regAt |-> 0,
            listening |-> TRUE, recv |-> <<>>,
            json |-> FALSE, jpc |-> "none", jval |-> <<>>, jrecv |-> <<>>,
            err |-> "none", closes |-> 0, reads |-> 0, rerr |-> FALSE,
            started |-> FALSE, cause |-> ""]

\* New: an empty registry.
\* rabbitmq.go, New, lines 50-58: the broker New returns, on the first
\* connection dialed
Built == [broker |-> TRUE, npc |-> "", dials |-> 1, dropped |-> {}, news |-> <<>>,
          declares |-> 0, publishes |-> 0, chCloses |-> 0, connCloses |-> 0,
          cpc |-> "", cerr |-> FALSE]

\* before New: no broker, no connection
Unbuilt == [Built EXCEPT !.broker = FALSE, !.dials = 0]

\* the fields of a broker just constructed, a being its AMQP part
Start(a) ==
    /\ writers = [t \in Names |-> 0]
    /\ readers = [t \in Names |-> 0]
    /\ ws = <<>>
    /\ rs = <<>>
    /\ topics = [t \in Names |-> <<>>]
    /\ closing = [w |-> {}, r |-> {}, err |-> FALSE]
    /\ amqp = a
    /\ mu = ""
    /\ queues = [t \in Names |-> 0]
    /\ chans = <<>>
    /\ pubs = [p \in Pubs |-> IdlePub]
    /\ cons = [c \in Cons |-> IdleCon]
    /\ log = <<>>
    /\ npub = 0
    /\ nclose = 0
    /\ closed = 0
    /\ rets = <<>>
    /\ jcalls = <<>>
    /\ panicked = FALSE

\* one broker of any kind, with the default setting of otel_enabled
Init ==
    /\ backend \in Backends
    /\ otelEnabled = FALSE
    /\ Start(Built)

\* q, ok := r.queues[queue]; if !ok { q = make(chan []byte, 100); r.queues[queue] = q }
\* The channel the registry holds for queue t afterwards.
\* variant: the registry hands out its first buffer whatever the name
GetOrCreate_Shared(t) == IF chans # <<>> THEN 1 ELSE Len(chans) + 1

GetOrCreate(t) == IF queues[t] # 0 THEN queues[t] ELSE Len(chans) + 1

RegistryAfter(t) ==
    IF queues[t] # 0 THEN queues ELSE [queues EXCEPT ![t] = Len(chans) + 1]

ChansAfter(t) ==
    IF queues[t] # 0 THEN chans ELSE Append(chans, [buf |-> <<>>, closed |-> FALSE])

\* The goroutines of a kind run the same code, so a behaviour and its image
\* under a renaming of them are alike: a goroutine starts its first call only
\* once those before it in this order have started theirs.
Earlier(x) == IF x = "p2" THEN {"p1"} ELSE IF x = "c2" THEN {"c1"} ELSE {}
PubUsed(p) == pubs[p].pc # "idle" \/ pubs[p].ret # "none"
ConUsed(c) == cons[c].pc # "idle"

\* variant: the mutex is released only when the call returns
\* (defer r.mu.Unlock())
Unlock_Deferred(owner) == owner

\* r.mu.Unlock() right after the lookup (part_011 lines 54 and 73, part_002
\* lines 106 and 140): the holder of the mutex when the call goes on
Unlock(owner) == ""

\* variant: the check of the context is missing
CtxErr_Never(canceled) == FALSE

\* ctx.Err() != nil at the top of Publish
CtxErr(canceled) == canceled

\* Publish, lines 43-54: with a canceled context the call returns the error
\* at once; otherwise, under r.mu, it looks the queue up or makes it and goes
\* on to the select.  limit bounds the calls of one behaviour.
PublishCall(p, t, b, canc, limit) ==
    /\ backend = "mem"
    /\ ~panicked
    /\ pubs[p].pc = "idle"
    /\ \A e \in Earlier(p) : PubUsed(e)
    /\ npub < limit
    /\ npub' = npub + 1
    /\ LET m == [id |-> npub + 1, body |-> b, pub |-> p, topic |-> t,
                 headers |-> {}] IN
       IF CtxErr(canc)
       THEN /\ pubs' = [pubs EXCEPT ![p] = [IdlePub EXCEPT !.pre = canc,
                                                          !.ret = "canceled"]]
            /\ UNCHANGED <<mu, queues, chans>>
       ELSE /\ mu = ""
            /\ mu' = Unlock(p)
            /\ pubs' = [pubs EXCEPT ![p] =
                          [pc |-> "send", msg |-> m, q |-> GetOrCreate(t),
                           canceled |-> canc, pre |-> canc, ret |-> "none",
                           cause |-> "", nwrite |-> 0]]
            /\ queues' = RegistryAfter(t)
            /\ chans' = ChansAfter(t)
    /\ UNCHANGED <<cons, log, nclose, closed, rets, panicked>>
    /\ UNCHANGED <<backend, otelEnabled, kvars, amqp>>

\* variant: the send does not wait for room in the buffer
CanSend_NoCap(ch) == ~ch.closed

\* whether `q <- body` can proceed on channel ch
CanSend(ch) == ~ch.closed /\ Len(ch.buf) < QueueCap

\* variants: the payload is enqueued without its bytes; the message is put
\* in front of the buffer; the message is not enqueued
Enqueue_Truncated(buf, m) == Append(buf, [m EXCEPT !.body = <<>>])
Enqueue_Front(buf, m) == <<m>> \o buf
Enqueue_Drop(buf, m) == buf

\* q <- body: the buffer afterwards
Enqueue(buf, m) == Append(buf, m)

\* Publish, lines 56-61: case q <- body
PublishSend(p) ==
    /\ backend = "mem"
    /\ ~panicked
    /\ pubs[p].pc = "send"
    /\ CanSend(chans[pubs[p].q])
    /\ chans' = [chans EXCEPT ![pubs[p].q].buf = Enqueue(@, pubs[p].msg)]
    /\ log' = Append(log, [msg |-> pubs[p].msg, ch |-> pubs[p].q])
    /\ pubs' = [pubs EXCEPT ![p] = [IdlePub EXCEPT !.ret = "nil"]]
    /\ UNCHANGED <<mu, queues, cons, npub, nclose, closed, rets, panicked>>
    /\ UNCHANGED <<backend, otelEnabled, kvars, amqp>>

\* Publish, line 59 on a channel Close has closed: the send panics.
PublishPanic(p) ==
    /\ backend = "mem"
    /\ ~panicked
    /\ pubs[p].pc = "send"
    /\ chans[pubs[p].q].closed
    /\ panicked' = TRUE
    /\ pubs' = [pubs EXCEPT ![p] = [IdlePub EXCEPT !.ret = "panic"]]
    /\ UNCHANGED <<mu, queues, chans, cons, log, npub, nclose, closed, rets>>
    /\ UNCHANGED <<backend, otelEnabled, kvars, amqp>>

\* variant: the select has no case for the context
DoneReady_Never(canceled) == FALSE

\* Publish, line 57: `case <-ctx.Done()` is ready once the context is
\* canceled
DoneReady(canceled) == canceled

\* Publish, lines 57-58: case <-ctx.Done()
PublishCtxDone(p) ==
    /\ backend = "mem"
    /\ ~panicked
    /\ pubs[p].pc = "send"
    /\ DoneReady(pubs[p].canceled)
    /\ pubs' = [pubs EXCEPT ![p] = [IdlePub EXCEPT !.ret = "canceled"]]
    /\ UNCHANGED <<mu, queues, chans, cons, log, npub, nclose, closed, rets, panicked>>
    /\ UNCHANGED <<backend, otelEnabled, kvars, amqp>>

\* The caller cancels the context of a Publish call in flight.
CancelPublish(p) ==
    /\ ~panicked
    /\ pubs[p].pc # "idle"
    /\ ~pubs[p].canceled
    /\ pubs' = [pubs EXCEPT ![p].canceled = TRUE]
    /\ UNCHANGED <<mu, queues, chans, cons, log, npub, nclose, closed, rets, panicked>>
    /\ UNCHANGED <<backend, otelEnabled, kvars, amqp>>

\* Consume, lines 66-89: under r.mu look the queue up or make it, make the
\* unbuffered out channel, start the goroutine, return (out, nil).  The
\* context is not examined by the call.
Consume(c, t, canc) ==
    /\ backend = "mem"
    /\ ~panicked
    /\ cons[c].pc = "idle"
    /\ \A e \in Earlier(c) : ConUsed(e)
    /\ mu = ""
    /\ mu' = Unlock(c)
    /\ cons' = [cons EXCEPT ![c] =
                  [IdleCon EXCEPT !.pc = "select", !.topic = t,
                                  !.q = GetOrCreate(t), !.canceled = canc,
                                  !.cancelAt = IF canc THEN npub ELSE 0,
                                  !.regAt = Len(log), !.err = "nil",
                                  !.started = TRUE]]
    /\ queues' = RegistryAfter(t)
    /\ chans' = ChansAfter(t)
    /\ UNCHANGED <<pubs, log, npub, nclose, closed, rets, panicked>>
    /\ UNCHANGED <<backend, otelEnabled, kvars, amqp>>

\* The caller cancels the context it gave to Consume.
CancelConsume(c) ==
    /\ ~panicked
    /\ cons[c].pc \in {"select", "read", "fwd"}
    /\ ~cons[c].canceled
    /\ cons' = [cons EXCEPT ![c].canceled = TRUE, ![c].cancelAt = npub]
    /\ UNCHANGED <<mu, queues, chans, pubs, log, npub, nclose, closed, rets, panicked>>
    /\ UNCHANGED <<backend, otelEnabled, kvars, amqp>>

\* variant: the received message stays in the buffer
RecvRest_Keep(ch) == ch

\* msg := <-q : the value received from channel ch, and ch afterwards
RecvValue(ch) == IF ch.buf # <<>> THEN Head(ch.buf) ELSE NilMsg
RecvRest(ch) == IF ch.buf # <<>> THEN [ch EXCEPT !.buf = Tail(@)] ELSE ch
CanRecv(ch) == ch.buf # <<>> \/ ch.closed

\* variant: the loop looks the buffer up by name each time round
Source_Lookup(con) == IF queues[con.topic] # 0 THEN queues[con.topic] ELSE con.q

\* the buffer the goroutine receives from: q, which the closure captured
\* when Consume looked it up (lines 68-72, 80)
Source(con) == con.q

\* goroutine, line 80: case msg := <-q
LoopRecv(c) ==
    /\ backend = "mem"
    /\ ~panicked
    /\ cons[c].pc = "select"
    /\ CanRecv(chans[Source(cons[c])])
    /\ cons' = [cons EXCEPT ![c].pc = "fwd", ![c].msg = RecvValue(chans[Source(cons[c])])]
    /\ chans' = [chans EXCEPT ![Source(cons[c])] = RecvRest(@)]
    /\ UNCHANGED <<mu, queues, pubs, log, npub, nclose, closed, rets, panicked>>
    /\ UNCHANGED <<backend, otelEnabled, kvars, amqp>>

\* variant: out is closed and the loop goes on
CloseOut_KeepRunning(con) == [con EXCEPT !.closes = @ + 1]

\* defer close(out) (part_011 line 77, part_002 line 144): the goroutine
\* returns and out is closed
CloseOut(con) == [con EXCEPT !.pc = "closed", !.closes = @ + 1]

\* goroutine, lines 82-83 and 77: case <-ctx.Done(): return; close(out)
LoopCtxDone(c) ==
    /\ backend = "mem"
    /\ ~panicked
    /\ cons[c].pc = "select"
    /\ cons[c].canceled
    /\ cons' = [cons EXCEPT ![c] = CloseOut(@)]
    /\ UNCHANGED <<mu, queues, chans, pubs, log, npub, nclose, closed, rets, panicked>>
    /\ UNCHANGED <<backend, otelEnabled, kvars, amqp>>

\* variant: the send on out is given up once the context is canceled
CanForward_UnlessCanceled(con) == con.pc = "fwd" /\ con.listening /\ ~con.canceled

\* whether the blocked send `out <- msg` of line 81 can complete: out is
\* unbuffered, so only when the caller is receiving
CanForward(con) == con.pc = "fwd" /\ con.listening

\* history: the first MaxRecv values the caller received
Received(recv, m) == IF Len(recv) < MaxRecv THEN Append(recv, m) ELSE recv

\* goroutine, line 81: out <- msg meets the caller's receive
Forward(c) ==
    /\ backend = "mem"
    /\ ~panicked
    /\ CanForward(cons[c])
    /\ cons' = [cons EXCEPT ![c].pc = "select", ![c].recv = Received(@, cons[c].msg),
                            ![c].msg = NilMsg]
    /\ UNCHANGED <<mu, queues, chans, pubs, log, npub, nclose, closed, rets, panicked>>
    /\ UNCHANGED <<backend, otelEnabled, kvars, amqp>>

\* The caller stops receiving from the output channel.
CallerStops(c) ==
    /\ backend = "mem"
    /\ ~panicked
    /\ cons[c].pc \in {"select", "fwd"}
    /\ cons[c].listening
    /\ cons' = [cons EXCEPT ![c].listening = FALSE]
    /\ UNCHANGED <<mu, queues, chans, pubs, log, npub, nclose, closed, rets, panicked>>
    /\ UNCHANGED <<backend, otelEnabled, kvars, amqp>>

\* variant: Close returns the error of a handle that failed to close
CloseResult_Propagate(failed) == IF failed THEN "close" ELSE "nil"

\* what Close returns, a Close of one of its handles having failed or not:
\* the errors are dropped (`_ = w.Close()`) and the result is nil
CloseResult(failed) == "nil"

\* Close, line 93: r.mu.Lock()
CloseLock ==
    /\ backend = "mem"
    /\ ~panicked
    /\ mu = ""
    /\ nclose < MaxClose
    /\ mu' = "close"
    /\ nclose' = nclose + 1
    /\ UNCHANGED <<queues, chans, pubs, cons, log, npub, closed, rets, panicked>>
    /\ UNCHANGED <<backend, otelEnabled, kvars, amqp>>

\* variant: Close closes the buffers and leaves their names in the registry
Deleted_Keep(m, t) == m

\* Close, line 97: delete(r.queues, name)
Deleted(m, t) == [m EXCEPT ![t] = 0]

\* Close, lines 95-98: one iteration of the range over r.queues (in any
\* order): close(ch); delete(r.queues, name)
CloseQueue(t) ==
    /\ backend = "mem"
    /\ ~panicked
    /\ mu = "close"
    /\ queues[t] # 0
    /\ chans' = [chans EXCEPT ![queues[t]].closed = TRUE]
    /\ queues' = Deleted(queues, t)
    /\ UNCHANGED <<mu, pubs, cons, log, npub, nclose, closed, rets, panicked>>
    /\ UNCHANGED <<backend, otelEnabled, kvars, amqp>>

\* Close, lines 99-100 and 94: the range is over; unlock and return nil
CloseReturn ==
    /\ backend = "mem"
    /\ ~panicked
    /\ mu = "close"
    /\ \A t \in Names : queues[t] = 0
    /\ mu' = ""
    /\ closed' = closed + 1
    /\ rets' = Append(rets, CloseResult(FALSE))
    /\ UNCHANGED <<queues, chans, pubs, cons, log, npub, nclose, panicked>>
    /\ UNCHANGED <<backend, otelEnabled, kvars, amqp>>

\* ------------------------------------------------------------- Part II
\* w, ok := k.writers[topic]; if !ok { w = writerFactoryFunc(...); k.writers[topic] = w }
\* (and the same for readers): the handle the map m holds for t afterwards,
\* hs being the handles the factory has made
Handle(m, hs, t) == IF m[t] # 0 THEN m[t] ELSE Len(hs) + 1
MapAfter(m, hs, t) == IF m[t] # 0 THEN m ELSE [m EXCEPT ![t] = Len(hs) + 1]
\* variant: the factory is called before the map is looked at
HandlesAfter_Always(m, hs, t, fresh) == Append(hs, fresh)

HandlesAfter(m, hs, t, fresh) == IF m[t] # 0 THEN hs ELSE Append(hs, fresh)

\* Kafka.Publish, lines 90-106: with a canceled context the call returns the
\* error at once; otherwise, under k.mu, it looks the writer up or makes it.
KPublish(p, t, b, canc, limit) ==
    /\ backend = "kafka"
    /\ ~panicked
    /\ pubs[p].pc = "idle"
    /\ \A e \in Earlier(p) : PubUsed(e)
    /\ npub < limit
    /\ npub' = npub + 1
    /\ LET m == [id |-> npub + 1, body |-> b, pub |-> p, topic |-> t,
                 headers |-> {}] IN
       IF CtxErr(canc)
       THEN /\ pubs' = [pubs EXCEPT ![p] = [IdlePub EXCEPT !.pre = canc,
                                                          !.ret = "canceled"]]
            /\ UNCHANGED <<mu, writers, ws>>
       ELSE /\ mu = ""
            /\ mu' = Unlock(p)
            /\ pubs' = [pubs EXCEPT ![p] =
                          [pc |-> "write", msg |-> m, q |-> Handle(writers, ws, t),
                           canceled |-> canc, pre |-> canc, ret |-> "none",
                           cause |-> "", nwrite |-> 0]]
            /\ writers' = MapAfter(writers, ws, t)
            /\ ws' = HandlesAfter(writers, ws, t,
                                  [topic |-> t, closes |-> 0, writes |-> 0,
                                   last |-> "nil", cerr |-> FALSE,
                                   born |-> closed])
    /\ UNCHANGED <<readers, rs, topics, closing, cons, log, nclose, closed,
                   rets, panicked>>
    /\ UNCHANGED <<backend, otelEnabled, mvars, amqp>>

\* a Publish call made by the caller itself
KPublishCall(p, t, b, canc, limit) ==
    /\ KPublish(p, t, b, canc, limit)
    /\ UNCHANGED jcalls

\* otel.StartSpan and the propagator's Inject(ctx, carrier): the keys of the
\* carrier after the injection of the context of the span Publish started
Carriers == {{"traceparent"}, {"traceparent", "tracestate"}}

\* variant: the carrier is attached whatever otel_enabled says
Headers_Always(enabled, carrier) == carrier

\* Kafka.Publish, lines 108-116: the headers of the outgoing message: the
\* entries of the carrier when k.cfg.OtelEnabled, none otherwise
Headers(enabled, carrier) == IF enabled THEN carrier ELSE {}

\* Kafka.Publish, line 118: kafka_go.Message{Value: body, Headers: headers}
Outgoing(m, carrier) == [m EXCEPT !.headers = Headers(otelEnabled, carrier)]

\* what WriteMessages may return: nil or an error, given by its text
WriterResults == {"nil", "write fail", "closed"}

\* variant: the error of the writer is dropped
WriteResult_Swallow(err) == "nil"

\* fmt.Errorf("write message: %w", err), lines 119-121: what Publish returns
\* for the error WriteMessages returned (nil: "nil"), and the error it wraps
WriteResult(err) == IF err = "nil" THEN "nil" ELSE "write message"
Wrapped(err) == IF err = "nil" THEN "" ELSE err

\* Kafka.Publish, lines 118-123: w.WriteMessages(ctx, msg), once.  The writer
\* is the environment: the write reaches the topic (nil) or fails; a closed
\* writer fails.
KWriteMessages(p, err) ==
    /\ backend = "kafka"
    /\ ~panicked
    /\ pubs[p].pc = "write"
    /\ err = "nil" => ws[pubs[p].q].closes = 0
    /\ ws' = [ws EXCEPT ![pubs[p].q].writes = @ + 1, ![pubs[p].q].last = err]
    /\ \E carrier \in Carriers :
         LET m == Outgoing(pubs[p].msg, carrier) IN
         /\ topics' = IF err = "nil"
                      THEN [topics EXCEPT ![m.topic] = Append(@, m)]
                      ELSE topics
         /\ log' = IF err = "nil" THEN Append(log, [msg |-> m, ch |-> pubs[p].q])
                   ELSE log
    /\ pubs' = [pubs EXCEPT ![p] = [IdlePub EXCEPT !.ret = WriteResult(err),
                                                   !.cause = Wrapped(err),
                                                   !.nwrite = pubs[p].nwrite + 1]]
    /\ UNCHANGED <<mu, writers, readers, rs, closing, cons, npub, nclose, closed,
                   rets, panicked>>
    /\ UNCHANGED <<backend, otelEnabled, mvars, amqp, jcalls>>

\* Kafka.Consume, lines 127-164: under k.mu look the reader up or make it,
\* make out, start the goroutine, return (out, nil).  js: the call is
\* ConsumeJSON's (lines 192-209), which starts the decoding goroutine on out.
KConsume(c, t, canc, js) ==
    /\ backend = "kafka"
    /\ ~panicked
    /\ cons[c].pc = "idle"
    /\ \A e \in Earlier(c) : ConUsed(e)
    /\ mu = ""
    /\ mu' = Unlock(c)
    /\ cons' = [cons EXCEPT ![c] =
                  [IdleCon EXCEPT !.pc = "read", !.topic = t,
                                  !.q = Handle(readers, rs, t), !.canceled = canc,
                                  !.cancelAt = IF canc THEN npub ELSE 0,
                                  !.regAt = Len(log), !.err = "nil", !.json = js,
                                  !.started = TRUE,
                                  !.jpc = IF js THEN "range" ELSE "none"]]
    /\ readers' = MapAfter(readers, rs, t)
    /\ rs' = HandlesAfter(readers, rs, t, [topic |-> t, closes |-> 0, off |-> 0,
                                            cerr |-> FALSE, born |-> closed])
    /\ UNCHANGED <<writers, ws, topics, closing, pubs, log, npub, nclose,
                   closed, rets, panicked>>
    /\ UNCHANGED <<backend, otelEnabled, mvars, amqp, jcalls>>

\* goroutine, line 146, err == nil: the reader (the environment) yields the
\* next message of its topic
KReadMessage(c) ==
    /\ backend = "kafka"
    /\ ~panicked
    /\ cons[c].pc = "read"
    /\ LET r == rs[cons[c].q] IN
       /\ r.closes = 0
       /\ r.off < Len(topics[r.topic])
       /\ cons' = [cons EXCEPT ![c].pc = "fwd", ![c].msg = topics[r.topic][r.off + 1],
                               ![c].reads = @ + 1]
       /\ rs' = [rs EXCEPT ![cons[c].q].off = @ + 1]
    /\ UNCHANGED <<mu, writers, readers, ws, topics, closing, pubs, log, npub,
                   nclose, closed, rets, panicked>>
    /\ UNCHANGED <<backend, otelEnabled, mvars, amqp, jcalls>>

\* why ReadMessage may return an error: the context is done, the reader has
\* been closed, or the backend failed
ReadFails(con, cause) ==
    \/ cause = "ctx" /\ con.canceled
    \/ cause = "closed" /\ rs[con.q].closes > 0
    \/ cause = "backend"

\* variant: the loop reads again after an error
OnReadError_Retry(con) == con

\* goroutine, lines 147-149: if err != nil { return }, which runs the
\* deferred close(out)
OnReadError(con) == CloseOut(con)

\* goroutine, lines 146-149 and 144: err != nil: return; close(out)
KReadError(c, cause) ==
    /\ backend = "kafka"
    /\ ~panicked
    /\ cons[c].pc = "read"
    /\ ReadFails(cons[c], cause)
    /\ cons' = [cons EXCEPT ![c] = OnReadError([@ EXCEPT !.reads = @ + 1,
                                                       !.rerr = TRUE])]
    /\ UNCHANGED <<mu, writers, readers, ws, rs, topics, closing, pubs, log, npub,
                   nclose, closed, rets, panicked>>
    /\ UNCHANGED <<backend, otelEnabled, mvars, amqp, jcalls>>

\* goroutine, line 159: out <- m.Value meets the caller's receive
KForward(c) ==
    /\ backend = "kafka"
    /\ ~panicked
    /\ ~cons[c].json
    /\ CanForward(cons[c])
    /\ cons' = [cons EXCEPT ![c].pc = "read", ![c].recv = Received(@, cons[c].msg),
                            ![c].msg = NilMsg]
    /\ UNCHANGED <<mu, writers, readers, ws, rs, topics, closing, pubs, log, npub,
                   nclose, closed, rets, panicked>>
    /\ UNCHANGED <<backend, otelEnabled, mvars, amqp, jcalls>>

\* encoding/json, for the values of the model: strings (Go strings hold any
\* bytes) and a struct with a channel field.  Texts are sequences of bytes.
Str(s) == [kind |-> "string", s |-> s]
BadType == [kind |-> "chan", s |-> <<>>]

HexDigits == <<48, 49, 50, 51, 52, 53, 54, 55, 56, 57, 97, 98, 99, 100, 101, 102>>
Hex(n) == HexDigits[n + 1]
HexVal(d) ==
    IF d \in 48..57 THEN d - 48
    ELSE IF d \in 97..102 THEN d - 87
    ELSE IF d \in 65..70 THEN d - 55
    ELSE -1

\* utf8.DecodeRune: the length of the UTF-8 encoding s starts with, 0 when s
\* does not start with one
IsCont(b) == b \in 128..191
RuneLen(s) ==
    IF s[1] < 128 THEN 1
    ELSE IF s[1] \in 194..223 /\ Len(s) >= 2 /\ IsCont(s[2]) THEN 2
    ELSE IF /\ s[1] \in 224..239 /\ Len(s) >= 3 /\ IsCont(s[2]) /\ IsCont(s[3])
            /\ s[1] = 224 => s[2] >= 160
            /\ s[1] = 237 => s[2] <= 159
         THEN 3
    ELSE IF /\ s[1] \in 240..244 /\ Len(s) >= 4
            /\ IsCont(s[2]) /\ IsCont(s[3]) /\ IsCont(s[4])
            /\ s[1] = 240 => s[2] >= 144
            /\ s[1] = 244 => s[2] <= 143
         THEN 4
    ELSE 0

\* the UTF-8 encoding of a code point; U+FFFD, the replacement character
Utf8(cp) ==
    IF cp < 128 THEN <<cp>>
    ELSE IF cp < 2048 THEN <<192 + (cp \div 64), 128 + (cp % 64)>>
    ELSE IF cp < 65536
         THEN <<224 + (cp \div 4096), 128 + ((cp \div 64) % 64), 128 + (cp % 64)>>
    ELSE <<240 + (cp \div 262144), 128 + ((cp \div 4096) % 64),
           128 + ((cp \div 64) % 64), 128 + (cp % 64)>>
Replacement == Utf8(65533)

\* json.Marshal of a string, between the quotes: " and \ get a backslash;
\* newline, carriage return and tab their letter; the other control bytes
\* and <, >, & are written \u00xx; a byte that starts no UTF-8 encoding is
\* written \ufffd; U+2028 and U+2029 are written \u2028 and \u2029; any
\* other character is copied
RECURSIVE Quoted(_)
Quoted(s) ==
    IF s = <<>> THEN <<>>
    ELSE LET b == s[1]
             n == RuneLen(s)
         IN  IF b < 128
             THEN (IF b \in {34, 92} THEN <<92, b>>
                   ELSE IF b = 10 THEN <<92, 110>>
                   ELSE IF b = 13 THEN <<92, 114>>
                   ELSE IF b = 9 THEN <<92, 116>>
                   ELSE IF b < 32 \/ b \in {38, 60, 62}
                        THEN <<92, 117, 48, 48, Hex(b \div 16), Hex(b % 16)>>
                   ELSE <<b>>) \o Quoted(Tail(s))
             ELSE IF n = 0
                  THEN <<92, 117, 102, 102, 102, 100>> \o Quoted(Tail(s))
             ELSE IF n = 3 /\ s[1] = 226 /\ s[2] = 128 /\ s[3] \in {168, 169}
                  THEN <<92, 117, 50, 48, 50, Hex(s[3] - 160)>>
                       \o Quoted(SubSeq(s, 4, Len(s)))
             ELSE SubSeq(s, 1, n) \o Quoted(SubSeq(s, n + 1, Len(s)))

\* json.Marshal(v): the text of a string; an UnsupportedTypeError for a
\* value with a channel in it
Marshal(v) ==
    IF v.kind = "string" THEN [ok |-> TRUE, b |-> <<34>> \o Quoted(v.s) \o <<34>>]
    ELSE [ok |-> FALSE, b |-> <<>>]

\* the decoding of a string literal, between the quotes: an escape gives its
\* character (\uXXXX the UTF-8 encoding of the code point, a surrogate pair
\* one character, a lone surrogate U+FFFD); a byte that starts no UTF-8
\* encoding gives U+FFFD; a control byte, a bare quote or an unknown escape
\* is a syntax error
Prepend(pre, r) == [ok |-> r.ok, val |-> IF r.ok THEN pre \o r.val ELSE <<>>]
Escapes == {34, 92, 47, 98, 102, 110, 114, 116}
Escaped(e) ==
    IF e = 98 THEN 8 ELSE IF e = 102 THEN 12 ELSE IF e = 110 THEN 10
    ELSE IF e = 114 THEN 13 ELSE IF e = 116 THEN 9 ELSE e
IsU4(s, i) ==
    /\ Len(s) >= i + 5 /\ s[i] = 92 /\ s[i + 1] = 117
    /\ \A k \in (i + 2)..(i + 5) : HexVal(s[k]) >= 0
U4(s, i) ==
    4096 * HexVal(s[i + 2]) + 256 * HexVal(s[i + 3]) + 16 * HexVal(s[i + 4])
    + HexVal(s[i + 5])
RECURSIVE Unquoted(_)
Unquoted(s) ==
    IF s = <<>> THEN [ok |-> TRUE, val |-> <<>>]
    ELSE LET b == s[1]
             n == RuneLen(s)
             bad == [ok |-> FALSE, val |-> <<>>]
         IN  IF b < 32 \/ b = 34 THEN bad
             ELSE IF b = 92
             THEN IF Len(s) >= 2 /\ s[2] \in Escapes
                  THEN Prepend(<<Escaped(s[2])>>, Unquoted(SubSeq(s, 3, Len(s))))
                  ELSE IF IsU4(s, 1)
                  THEN LET hi == U4(s, 1) IN
                       IF hi \in 55296..56319 /\ IsU4(s, 7) /\ U4(s, 7) \in 56320..57343
                       THEN Prepend(Utf8(65536 + 1024 * (hi - 55296) + (U4(s, 7) - 56320)),
                                    Unquoted(SubSeq(s, 13, Len(s))))
                       ELSE IF hi \in 55296..57343
                       THEN Prepend(Replacement, Unquoted(SubSeq(s, 7, Len(s))))
                       ELSE Prepend(Utf8(hi), Unquoted(SubSeq(s, 7, Len(s))))
                  ELSE bad
             ELSE IF n = 0 THEN Prepend(Replacement, Unquoted(Tail(s)))
             ELSE Prepend(SubSeq(s, 1, n), Unquoted(SubSeq(s, n + 1, Len(s))))

\* the text without the white space around it
IsSpace(b) == b \in {32, 9, 10, 13}
RECURSIVE Trimmed(_)
Trimmed(b) ==
    IF b = <<>> THEN b
    ELSE IF IsSpace(b[1]) THEN Trimmed(Tail(b))
    ELSE IF IsSpace(b[Len(b)]) THEN Trimmed(SubSeq(b, 1, Len(b) - 1))
    ELSE b

\* json.Unmarshal(b, &v) for T = string: a string literal decodes to its
\* text, null leaves the zero value, and anything else is an error
JsonNull == <<110, 117, 108, 108>>
IsJsonString(b) ==
    /\ Len(b) >= 2 /\ b[1] = 34 /\ b[Len(b)] = 34
    /\ Unquoted(SubSeq(b, 2, Len(b) - 1)).ok
Unmarshal(b) ==
    LET t == Trimmed(b) IN
    IF IsJsonString(t) THEN [ok |-> TRUE, val |-> Unquoted(SubSeq(t, 2, Len(t) - 1)).val]
    ELSE IF t = JsonNull THEN [ok |-> TRUE, val |-> <<>>]
    ELSE [ok |-> FALSE, val |-> <<>>]

\* the values PublishJSON is given: the strings "", a, ", <, e-acute and
\* the one byte 0xff, and a badType{}
JStrings == {<<>>, <<97>>, <<34>>, <<60>>, <<195, 169>>, <<255>>}
JValues == {Str(s) : s \in JStrings} \cup {BadType}

\* variant: PublishJSON goes on to Publish whatever json.Marshal returned
AfterMarshal_Publish(j) == "publish"

\* PublishJSON, lines 184-188: what follows json.Marshal
AfterMarshal(j) == IF j.ok THEN "publish" ELSE "return"

\* PublishJSON, lines 183-189: b, err := json.Marshal(v); with an error the
\* call returns it, wrapped; otherwise it returns k.Publish(ctx, topic, b)
KPublishJSON(p, t, v, canc, limit) ==
    /\ Len(jcalls) < limit
    /\ LET j == Marshal(v) IN
       IF AfterMarshal(j) = "return"
       THEN /\ backend = "kafka"
            /\ ~panicked
            /\ pubs[p].pc = "idle"
            /\ \A e \in Earlier(p) : PubUsed(e)
            /\ pubs' = [pubs EXCEPT ![p] = [IdlePub EXCEPT !.ret = "marshal message",
                                                           !.cause = "unsupported type"]]
            /\ jcalls' = Append(jcalls, [v |-> v, pub |-> p, id |-> 0])
            /\ UNCHANGED <<mu, writers, readers, ws, rs, topics, closing, cons, log,
                           npub, nclose, closed, rets, panicked>>
            /\ UNCHANGED <<backend, otelEnabled, mvars, amqp>>
       ELSE /\ KPublish(p, t, j.b, canc, limit)
            /\ jcalls' = Append(jcalls, [v |-> v, pub |-> p, id |-> npub + 1])

\* variant: the decoding goroutine returns on a payload it cannot decode
OnUnmarshalError_Return == "closed"

\* ConsumeJSON, lines 202-205: where the decoding goroutine goes when
\* json.Unmarshal fails: it logs and continues with the next payload
OnUnmarshalError == "range"

\* ConsumeJSON, lines 200-206: `for b := range byteCh` meets the reading
\* goroutine's `out <- m.Value`; the payload is decoded, then forwarded or
\* skipped
JRecv(c) ==
    /\ backend = "kafka"
    /\ ~panicked
    /\ cons[c].json
    /\ cons[c].pc = "fwd"
    /\ cons[c].jpc = "range"
    /\ LET u == Unmarshal(cons[c].msg.body) IN
       cons' = [cons EXCEPT ![c].pc = "read", ![c].recv = Received(@, cons[c].msg),
                            ![c].msg = NilMsg,
                            ![c].jpc = IF u.ok THEN "fwd" ELSE OnUnmarshalError,
                            ![c].jval = u.val]
    /\ UNCHANGED <<mu, writers, readers, ws, rs, topics, closing, pubs, log, npub,
                   nclose, closed, rets, panicked>>
    /\ UNCHANGED <<backend, otelEnabled, mvars, amqp, jcalls>>

\* ConsumeJSON, line 206: out <- v meets the caller's receive
JForward(c) ==
    /\ backend = "kafka"
    /\ ~panicked
    /\ cons[c].jpc = "fwd"
    /\ cons[c].listening
    /\ cons' = [cons EXCEPT ![c].jpc = "range", ![c].jrecv = Received(@, cons[c].jval),
                            ![c].jval = <<>>]
    /\ UNCHANGED <<mu, writers, readers, ws, rs, topics, closing, pubs, log, npub,
                   nclose, closed, rets, panicked>>
    /\ UNCHANGED <<backend, otelEnabled, mvars, amqp, jcalls>>

\* ConsumeJSON, lines 199-200: byteCh is closed: the range ends; close(out)
JClose(c) ==
    /\ backend = "kafka"
    /\ ~panicked
    /\ cons[c].jpc = "range"
    /\ cons[c].pc = "closed"
    /\ cons' = [cons EXCEPT ![c].jpc = "closed"]
    /\ UNCHANGED <<mu, writers, readers, ws, rs, topics, closing, pubs, log, npub,
                   nclose, closed, rets, panicked>>
    /\ UNCHANGED <<backend, otelEnabled, mvars, amqp, jcalls>>

\* The caller of ConsumeJSON stops receiving from the typed channel.
JCallerStops(c) ==
    /\ backend = "kafka"
    /\ ~panicked
    /\ cons[c].json
    /\ cons[c].jpc \in {"range", "fwd"}
    /\ cons[c].listening
    /\ cons' = [cons EXCEPT ![c].listening = FALSE]
    /\ UNCHANGED <<mu, writers, readers, ws, rs, topics, closing, pubs, log, npub,
                   nclose, closed, rets, panicked>>
    /\ UNCHANGED <<backend, otelEnabled, mvars, amqp, jcalls>>

\* Kafka.Close, line 168: k.mu.Lock(); the two ranges will visit the entries
\* the maps hold now.  limit bounds the calls of one behaviour.
KCloseLockUpTo(limit) ==
    /\ backend = "kafka"
    /\ ~panicked
    /\ mu = ""
    /\ nclose < limit
    /\ mu' = "close"
    /\ nclose' = nclose + 1
    /\ closing' = [w |-> {t \in Names : writers[t] # 0},
                   r |-> {t \in Names : readers[t] # 0}, err |-> FALSE]
    /\ UNCHANGED <<writers, readers, ws, rs, topics, pubs, cons, log, npub, closed,
                   rets, panicked>>
    /\ UNCHANGED <<backend, otelEnabled, mvars, amqp, jcalls>>

KCloseLock == KCloseLockUpTo(MaxClose)

\* Kafka.Close, lines 170-172: _ = w.Close() for one writer; the writer (the
\* environment) closes and returns nil (ok) or an error, which is dropped
KCloseWriter(t, ok) ==
    /\ backend = "kafka"
    /\ ~panicked
    /\ mu = "close"
    /\ t \in closing.w
    /\ ws' = [ws EXCEPT ![writers[t]].closes = @ + 1,
                         ![writers[t]].cerr = @ \/ ~ok]
    /\ closing' = [closing EXCEPT !.w = @ \ {t}, !.err = @ \/ ~ok]
    /\ UNCHANGED <<mu, writers, readers, rs, topics, pubs, cons, log, npub, nclose,
                   closed, rets, panicked>>
    /\ UNCHANGED <<backend, otelEnabled, mvars, amqp, jcalls>>

\* Kafka.Close, lines 173-175: _ = r.Close() for one reader
KCloseReader(t, ok) ==
    /\ backend = "kafka"
    /\ ~panicked
    /\ mu = "close"
    /\ closing.w = {}
    /\ t \in closing.r
    /\ rs' = [rs EXCEPT ![readers[t]].closes = @ + 1,
                         ![readers[t]].cerr = @ \/ ~ok]
    /\ closing' = [closing EXCEPT !.r = @ \ {t}, !.err = @ \/ ~ok]
    /\ UNCHANGED <<mu, writers, readers, ws, topics, pubs, cons, log, npub, nclose,
                   closed, rets, panicked>>
    /\ UNCHANGED <<backend, otelEnabled, mvars, amqp, jcalls>>

\* variant: Close leaves the maps as they are
AfterClose_Keep(m) == m

\* Kafka.Close, lines 176-177: the map m is replaced by an empty one
AfterClose(m) == [t \in Names |-> 0]

\* Kafka.Close, lines 176-179 and 169: fresh maps; unlock; return nil
KCloseReturn ==
    /\ backend = "kafka"
    /\ ~panicked
    /\ mu = "close"
    /\ closing.w = {} /\ closing.r = {}
    /\ writers' = AfterClose(writers)
    /\ readers' = AfterClose(readers)
    /\ mu' = ""
    /\ closed' = closed + 1
    /\ rets' = Append(rets, CloseResult(closing.err))
    /\ UNCHANGED <<ws, rs, topics, closing, pubs, cons, log, npub, nclose, panicked>>
    /\ UNCHANGED <<backend, otelEnabled, mvars, amqp, jcalls>>

\* ------------------------------------------------------------ Part III
\* rabbitmq.go, Publish, lines 62-70: with a canceled context the call
\* returns the error at once
APublishCall(p, t, b, canc, limit) ==
    /\ backend = "amqp"
    /\ amqp.broker
    /\ ~panicked
    /\ pubs[p].pc = "idle"
    /\ \A e \in Earlier(p) : PubUsed(e)
    /\ npub < limit
    /\ npub' = npub + 1
    /\ LET m == [id |-> npub + 1, body |-> b, pub |-> p, topic |-> t,
                 headers |-> {}] IN
       pubs' = [pubs EXCEPT ![p] =
                  IF CtxErr(canc)
                  THEN [IdlePub EXCEPT !.pre = canc, !.ret = "canceled"]
                  ELSE [pc |-> "declare", msg |-> m, q |-> 0, canceled |-> canc,
                        pre |-> canc, ret |-> "none",
                           cause |-> "", nwrite |-> 0]]
    /\ UNCHANGED <<mu, amqp, cons, log, nclose, closed, rets, panicked>>
    /\ UNCHANGED <<backend, otelEnabled, mvars, kvars>>

\* what QueueDeclare returns: nil ("") or an error, given by its text
DeclareResult(ok) == IF ok THEN "" ELSE "decl"

\* variant: Publish goes on whatever QueueDeclare returned
AfterDeclare_Publish(ok) == "publish"

\* rabbitmq.go, Publish, lines 72-75: what follows QueueDeclare
AfterDeclare(ok) == IF ok THEN "publish" ELSE "return"

\* rabbitmq.go, Publish, lines 72-75: r.channel.QueueDeclare; on an error
\* the call returns it
AQueueDeclare(p, ok) ==
    /\ backend = "amqp"
    /\ ~panicked
    /\ pubs[p].pc = "declare"
    /\ amqp' = [amqp EXCEPT !.declares = @ + 1]
    /\ pubs' = [pubs EXCEPT ![p] =
                  IF AfterDeclare(ok) = "publish"
                  THEN [@ EXCEPT !.pc = "publish", !.cause = DeclareResult(ok)]
                  ELSE [IdlePub EXCEPT !.ret = "declare queue",
                                       !.cause = DeclareResult(ok)]]
    /\ UNCHANGED <<mu, cons, log, npub, nclose, closed, rets, panicked>>
    /\ UNCHANGED <<backend, otelEnabled, mvars, kvars>>

\* rabbitmq.go, Publish, lines 77-85: r.channel.PublishWithContext, with
\* the headers of channel_close_test.go, lines 175-189: the entries of the
\* carrier when r.otelEnabled, an empty table otherwise
APublishWithContext(p, ok) ==
    /\ backend = "amqp"
    /\ ~panicked
    /\ pubs[p].pc = "publish"
    /\ amqp' = [amqp EXCEPT !.publishes = @ + 1]
    /\ \E carrier \in Carriers :
         log' = IF ok THEN Append(log, [msg |-> Outgoing(pubs[p].msg, carrier), ch |-> 0])
                ELSE log
    /\ pubs' = [pubs EXCEPT ![p] =
                  [IdlePub EXCEPT !.ret = IF ok THEN "nil" ELSE "publish message",
                                  !.nwrite = pubs[p].nwrite + 1]]
    /\ UNCHANGED <<mu, cons, npub, nclose, closed, rets, panicked>>
    /\ UNCHANGED <<backend, otelEnabled, mvars, kvars>>

\* rabbitmq.go, Close, lines 118-120: r.mu.Lock().  limit bounds the calls
\* of one behaviour.
ACloseLock(limit) ==
    /\ backend = "amqp"
    /\ amqp.broker
    /\ ~panicked
    /\ mu = ""
    /\ nclose < limit
    /\ mu' = "close"
    /\ nclose' = nclose + 1
    /\ amqp' = [amqp EXCEPT !.cpc = "channel", !.cerr = FALSE]
    /\ UNCHANGED <<pubs, cons, log, npub, closed, rets, panicked>>
    /\ UNCHANGED <<backend, otelEnabled, mvars, kvars>>

\* rabbitmq.go, Close, lines 121-123: r.channel is set by New and never
\* cleared, so `r.channel != nil` holds: _ = r.channel.Close()
ACloseChannel(ok) ==
    /\ backend = "amqp"
    /\ ~panicked
    /\ mu = "close"
    /\ amqp.cpc = "channel"
    /\ amqp' = [amqp EXCEPT !.chCloses = @ + 1, !.cpc = "conn", !.cerr = @ \/ ~ok]
    /\ UNCHANGED <<mu, pubs, cons, log, npub, nclose, closed, rets, panicked>>
    /\ UNCHANGED <<backend, otelEnabled, mvars, kvars>>

\* rabbitmq.go, Close, lines 124-126: r.conn is never cleared either:
\* _ = r.conn.Close()
ACloseConn(ok) ==
    /\ backend = "amqp"
    /\ ~panicked
    /\ mu = "close"
    /\ amqp.cpc = "conn"
    /\ amqp' = [amqp EXCEPT !.connCloses = @ + 1, !.cpc = "ret", !.cerr = @ \/ ~ok]
    /\ UNCHANGED <<mu, pubs, cons, log, npub, nclose, closed, rets, panicked>>
    /\ UNCHANGED <<backend, otelEnabled, mvars, kvars>>

\* rabbitmq.go, Close, lines 127-128 and 120: unlock; return nil
ACloseReturn ==
    /\ backend = "amqp"
    /\ ~panicked
    /\ mu = "close"
    /\ amqp.cpc = "ret"
    /\ mu' = ""
    /\ closed' = closed + 1
    /\ rets' = Append(rets, CloseResult(amqp.cerr))
    /\ amqp' = [amqp EXCEPT !.cpc = ""]
    /\ UNCHANGED <<pubs, cons, log, npub, nclose, panicked>>
    /\ UNCHANGED <<backend, otelEnabled, mvars, kvars>>

\* what New returns for the step that failed ("none": no step did)
NewError(cause) ==
    IF cause = "dial" THEN "connect rabbitmq"
    ELSE IF cause = "channel" THEN "open channel"
    ELSE "nil"

\* variant: New leaves the connection open when Channel() fails
OnChannelError_Leak(dropped, conn) == dropped

\* rabbitmq.go, New, line 46: conn.Close() when conn.Channel() failed
OnChannelError(dropped, conn) == dropped \cup {conn}

\* rabbitmq.go, New, lines 39-42: conn, err := amqp.Dial(cfg.URL); with an
\* error New returns (nil, "connect rabbitmq: ...").  limit bounds the New
\* calls of one behaviour.
ANewDial(ok, limit) ==
    /\ backend = "amqp"
    /\ ~panicked
    /\ ~amqp.broker
    /\ amqp.npc = ""
    /\ Len(amqp.news) < limit
    /\ amqp' = IF ok
               THEN [amqp EXCEPT !.npc = "channel", !.dials = @ + 1]
               ELSE [amqp EXCEPT !.news = Append(@, [broker |-> FALSE, cause |-> "dial",
                                                     err |-> NewError("dial"),
                                                     conn |-> 0])]
    /\ UNCHANGED <<mu, pubs, cons, log, npub, nclose, closed, rets, panicked>>
    /\ UNCHANGED <<backend, otelEnabled, mvars, kvars>>

\* rabbitmq.go, New, lines 44-58: ch, err := conn.Channel(); with an error
\* New closes the connection and returns (nil, "open channel: ..."),
\* otherwise it returns the broker
ANewChannel(ok) ==
    /\ backend = "amqp"
    /\ ~panicked
    /\ amqp.npc = "channel"
    /\ amqp' = IF ok
               THEN [amqp EXCEPT !.npc = "", !.broker = TRUE,
                                 !.news = Append(@, [broker |-> TRUE, cause |-> "none",
                                                     err |-> NewError("none"),
                                                     conn |-> amqp.dials])]
               ELSE [amqp EXCEPT !.npc = "",
                                 !.dropped = OnChannelError(@, amqp.dials),
                                 !.news = Append(@, [broker |-> FALSE,
                                                     cause |-> "channel",
                                                     err |-> NewError("channel"),
                                                     conn |-> amqp.dials])]
    /\ UNCHANGED <<mu, pubs, cons, log, npub, nclose, closed, rets, panicked>>
    /\ UNCHANGED <<backend, otelEnabled, mvars, kvars>>

\* what Consume returns for the call of the channel that failed
ConsumeError(cause) == IF cause = "declare" THEN "declare queue" ELSE "consume"

\* variant: Consume starts its goroutine although the call failed
OnConsumeError_Start(con, cause) ==
    [con EXCEPT !.pc = "read", !.started = TRUE, !.err = "nil", !.cause = cause]

\* rabbitmq.go, Consume, lines 97-99 and 102-104: return nil and the error
OnConsumeError(con, cause) ==
    [con EXCEPT !.pc = "failed", !.err = ConsumeError(cause), !.cause = cause]

\* rabbitmq.go, Consume, lines 89-99: r.channel.QueueDeclare; the context is
\* not examined
AConsumeDeclare(c, t, canc, ok) ==
    /\ backend = "amqp"
    /\ amqp.broker
    /\ ~panicked
    /\ cons[c].pc = "idle"
    /\ \A e \in Earlier(c) : ConUsed(e)
    /\ amqp' = [amqp EXCEPT !.declares = @ + 1]
    /\ LET con == [IdleCon EXCEPT !.pc = "subscribe", !.topic = t,
                                  !.canceled = canc,
                                  !.cancelAt = IF canc THEN npub ELSE 0,
                                  !.regAt = Len(log)]
       IN  cons' = [cons EXCEPT ![c] = IF ok THEN con
                                       ELSE OnConsumeError(con, "declare")]
    /\ UNCHANGED <<mu, pubs, log, npub, nclose, closed, rets, panicked>>
    /\ UNCHANGED <<backend, otelEnabled, mvars, kvars>>

\* rabbitmq.go, Consume, lines 101-114: r.channel.ConsumeWithContext; with
\* deliveries, make(chan []byte), start the goroutine, return (out, nil).
\* What the client library does with a context that is done is its own:
\* it may return the error of the context or the deliveries.
AConsumeWithContext(c, ok) ==
    /\ backend = "amqp"
    /\ ~panicked
    /\ cons[c].pc = "subscribe"
    /\ cons' = [cons EXCEPT ![c] =
                  IF ok THEN [@ EXCEPT !.pc = "read", !.started = TRUE, !.err = "nil"]
                  ELSE OnConsumeError(@, "consume")]
    /\ UNCHANGED <<mu, amqp, pubs, log, npub, nclose, closed, rets, panicked>>
    /\ UNCHANGED <<backend, otelEnabled, mvars, kvars>>

\* goroutine, line 109: `for d := range deliveries` yields the next message
\* published to the queue since the call
ADelivery(c) ==
    /\ backend = "amqp"
    /\ ~panicked
    /\ cons[c].pc = "read"
    /\ cons[c].started
    /\ cons[c].regAt + cons[c].reads < Len(log)
    /\ cons' = [cons EXCEPT ![c].pc = "fwd",
                            ![c].msg = log[cons[c].regAt + cons[c].reads + 1].msg,
                            ![c].reads = @ + 1]
    /\ UNCHANGED <<mu, amqp, pubs, log, npub, nclose, closed, rets, panicked>>
    /\ UNCHANGED <<backend, otelEnabled, mvars, kvars>>

\* goroutine, line 110: out <- d.Body meets the caller's receive
AForward(c) ==
    /\ backend = "amqp"
    /\ ~panicked
    /\ CanForward(cons[c])
    /\ cons' = [cons EXCEPT ![c].pc = "read", ![c].recv = Received(@, cons[c].msg),
                            ![c].msg = NilMsg]
    /\ UNCHANGED <<mu, amqp, pubs, log, npub, nclose, closed, rets, panicked>>
    /\ UNCHANGED <<backend, otelEnabled, mvars, kvars>>

\* goroutine, lines 108-109: the library closes deliveries (the channel was
\* closed, or the context is done): the range ends; close(out)
ADeliveriesClosed(c) ==
    /\ backend = "amqp"
    /\ ~panicked
    /\ cons[c].pc = "read"
    /\ cons[c].started
    /\ amqp.chCloses > 0 \/ cons[c].canceled
    /\ cons' = [cons EXCEPT ![c] = CloseOut(@)]
    /\ UNCHANGED <<mu, amqp, pubs, log, npub, nclose, closed, rets, panicked>>
    /\ UNCHANGED <<backend, otelEnabled, mvars, kvars>>

\* The goroutines of the in-memory broker: publishers PP, consumers CC.  The
\* two cancellations are the callers' and the same for every backend.
NextMem(PP, CC) ==
    \/ \E p \in PP, t \in Topics, b \in Bodies, canc \in BOOLEAN :
          PublishCall(p, t, b, canc, MaxPub)
    \/ \E p \in PP : PublishSend(p)
    \/ \E p \in PP : PublishPanic(p)
    \/ \E p \in PP : PublishCtxDone(p)
    \/ \E p \in PP : CancelPublish(p)
    \/ \E c \in CC, t \in Topics, canc \in BOOLEAN : Consume(c, t, canc)
    \/ \E c \in CC : CancelConsume(c)
    \/ \E c \in CC : LoopRecv(c)
    \/ \E c \in CC : LoopCtxDone(c)
    \/ \E c \in CC : Forward(c)
    \/ CloseLock
    \/ \E t \in Names : CloseQueue(t)
    \/ CloseReturn

\* The goroutines of the Kafka broker.
NextKafka(PP, CC) ==
    \/ \E p \in PP, t \in Topics, b \in KBodies, canc \in BOOLEAN :
          KPublishCall(p, t, b, canc, MaxPub)
    \/ \E p \in PP, err \in WriterResults : KWriteMessages(p, err)
    \/ \E c \in CC, t \in Topics, canc \in BOOLEAN, js \in BOOLEAN :
          KConsume(c, t, canc, js)
    \/ \E c \in CC : KReadMessage(c)
    \/ \E c \in CC, cause \in {"ctx", "closed", "backend"} : KReadError(c, cause)
    \/ \E c \in CC : KForward(c)
    \/ \E c \in CC : JRecv(c)
    \/ \E c \in CC : JForward(c)
    \/ \E c \in CC : JClose(c)
    \/ KCloseLock
    \/ \E t \in Names, ok \in BOOLEAN : KCloseWriter(t, ok)
    \/ \E t \in Names, ok \in BOOLEAN : KCloseReader(t, ok)
    \/ KCloseReturn

\* The publishers of the AMQP-backed broker, and its Close.
NextAmqp(PP) ==
    \/ \E p \in PP, t \in Topics, b \in Bodies, canc \in BOOLEAN :
          APublishCall(p, t, b, canc, MaxPub)
    \/ \E p \in PP, ok \in BOOLEAN : AQueueDeclare(p, ok)
    \/ \E p \in PP, ok \in BOOLEAN : APublishWithContext(p, ok)
    \/ ACloseLock(MaxCloses)
    \/ \E ok \in BOOLEAN : ACloseChannel(ok)
    \/ \E ok \in BOOLEAN : ACloseConn(ok)
    \/ ACloseReturn

\* The AMQP-backed broker from its construction on: New is called until it
\* returns a broker or MaxNew calls have failed; then one publisher, one
\* consumer and Close.
InitNew ==
    /\ backend = "amqp"
    /\ otelEnabled = FALSE
    /\ Start(Unbuilt)
NextNew ==
    \/ \E ok \in BOOLEAN : ANewDial(ok, MaxNew)
    \/ \E ok \in BOOLEAN : ANewChannel(ok)
    \/ NextAmqp({"p1"})
    \/ \E t \in Topics, canc \in BOOLEAN, ok \in BOOLEAN :
          AConsumeDeclare("c1", t, canc, ok)
    \/ \E ok \in BOOLEAN : AConsumeWithContext("c1", ok)
    \/ ADelivery("c1")
    \/ AForward("c1")
    \/ ADeliveriesClosed("c1")
    \/ CancelConsume("c1")
SpecNew == InitNew /\ [][NextNew]_vars

\* one broker, two publishers, one consumer
Next ==
    \/ NextMem(Pubs, {"c1"})
    \/ NextKafka(Pubs, {"c1"})
    \/ NextAmqp(Pubs)

Spec == Init /\ [][Next]_vars

\* The in-memory broker alone: two publishers, one consumer.
InitMem == Init /\ backend = "mem"
SpecMem == InitMem /\ [][NextMem(Pubs, {"c1"})]_vars

\* The Kafka broker alone, fed by one publisher: what ConsumeJSON decodes is
\* whatever sequence of payloads the reader yields.
InitKafka == Init /\ backend = "kafka"
NextKafkaOne ==
    \/ NextKafka({"p1"}, {"c1"})
    \/ CancelPublish("p1")
    \/ CancelConsume("c1")
SpecKafka == InitKafka /\ [][NextKafkaOne]_vars

\* The typed behaviours of the Kafka broker: one publisher calling
\* PublishJSON, one ConsumeJSON[string] on the topic.
NextJson ==
    \/ \E v \in JValues, canc \in BOOLEAN : KPublishJSON("p1", "q", v, canc, MaxPub)
    \/ \E err \in WriterResults : KWriteMessages("p1", err)
    \/ KConsume("c1", "q", FALSE, TRUE)
    \/ KReadMessage("c1")
    \/ KReadError("c1", "backend")
    \/ JRecv("c1")
    \/ JForward("c1")
    \/ JClose("c1")
SpecJson == InitKafka /\ [][NextJson]_vars

\* The tracing behaviours: a Kafka or AMQP-backed broker with otel_enabled
\* off or on, one publisher, and one Kafka consumer.
InitTrace ==
    /\ backend \in {"kafka", "amqp"}
    /\ otelEnabled \in BOOLEAN
    /\ Start(Built)
NextTrace ==
    \/ \E b \in Bodies, canc \in BOOLEAN : KPublishCall("p1", "q", b, canc, MaxPub)
    \/ \E err \in WriterResults : KWriteMessages("p1", err)
    \/ KConsume("c1", "q", FALSE, FALSE)
    \/ KReadMessage("c1")
    \/ KForward("c1")
    \/ \E b \in Bodies, canc \in BOOLEAN : APublishCall("p1", "q", b, canc, MaxPub)
    \/ \E ok \in BOOLEAN : AQueueDeclare("p1", ok)
    \/ \E ok \in BOOLEAN : APublishWithContext("p1", ok)
SpecTrace == InitTrace /\ [][NextTrace]_vars

\* The handle-lifecycle behaviours of the Kafka broker: one publisher, two
\* Consume calls on the one topic, and Close called up to MaxCloses times.
HandleBody == <<34, 97, 34>>
NextHandles ==
    \/ KPublishCall("p1", "q", HandleBody, FALSE, MaxPub)
    \/ \E err \in WriterResults : KWriteMessages("p1", err)
    \/ \E c \in Cons : KConsume(c, "q", FALSE, FALSE)
    \/ \E c \in Cons : KReadMessage(c)
    \/ \E c \in Cons, cause \in {"closed", "backend"} : KReadError(c, cause)
    \/ \E c \in Cons : KForward(c)
    \/ KCloseLockUpTo(MaxCloses)
    \/ \E t \in Names, ok \in BOOLEAN : KCloseWriter(t, ok)
    \/ \E t \in Names, ok \in BOOLEAN : KCloseReader(t, ok)
    \/ KCloseReturn
SpecHandles == InitKafka /\ [][NextHandles]_vars

\* The buffer-filling behaviours of the in-memory broker: one publisher
\* calls Publish until the buffer of its queue is full; only then does a
\* second publisher call, is a context canceled, and does a consumer register
\* and take messages away.
FillBody == <<104, 105>>
Blocked(p) ==
    /\ pubs[p].pc = "send"
    /\ Len(chans[pubs[p].q].buf) = QueueCap
Filled == Len(log) >= QueueCap

InitFill == Init /\ backend = "mem"

NextFill ==
    \/ PublishCall("p1", "q", FillBody, FALSE, MaxFill)
    \/ Filled /\ PublishCall("p2", "q", FillBody, FALSE, MaxFill)
    \/ \E p \in Pubs : PublishSend(p)
    \/ \E p \in Pubs : Blocked(p) /\ CancelPublish(p)
    \/ \E p \in Pubs : PublishCtxDone(p)
    \/ Filled /\ Consume("c1", "q", FALSE)
    \/ LoopRecv("c1")
    \/ Forward("c1")

SpecFill == InitFill /\ [][NextFill]_vars

\* The same behaviours with every goroutine that can take a step eventually
\* taking it: a publisher at its select runs when a case of it stays ready.
SpecBlocked ==
    /\ InitFill
    /\ [][NextFill]_vars
    /\ \A p \in Pubs : WF_vars(PublishSend(p)) /\ WF_vars(PublishCtxDone(p))

\* The behaviours in which every goroutine that can take a step eventually
\* takes it: one publisher and one consumer on the in-memory or the Kafka
\* broker.  The Go scheduler runs every runnable goroutine, and a select
\* that is ready over and over on a case eventually picks it (strong fairness
\* for the two cases of the consumer's select).  The callers' own steps -
\* calling, canceling - are under no obligation.
InitLive == Init /\ backend \in {"mem", "kafka"}

NextLive == NextMem({"p1"}, {"c1"}) \/ NextKafka({"p1"}, {"c1"})

FairLive ==
    /\ \A p \in {"p1"} :
        /\ WF_vars(PublishSend(p)) /\ WF_vars(PublishCtxDone(p))
        /\ WF_vars(\E err \in WriterResults : KWriteMessages(p, err))
    /\ \A c \in {"c1"} :
        /\ SF_vars(LoopRecv(c)) /\ SF_vars(LoopCtxDone(c)) /\ WF_vars(Forward(c))
        /\ WF_vars(KReadMessage(c))
        /\ WF_vars(KReadError(c, "ctx")) /\ WF_vars(KReadError(c, "closed"))
        /\ WF_vars(KForward(c)) /\ WF_vars(JRecv(c)) /\ WF_vars(JForward(c))
        /\ WF_vars(JClose(c))
    /\ WF_vars(\E t \in Names : CloseQueue(t)) /\ WF_vars(CloseReturn)
    /\ WF_vars(\E t \in Names, ok \in BOOLEAN : KCloseWriter(t, ok))
    /\ WF_vars(\E t \in Names, ok \in BOOLEAN : KCloseReader(t, ok))
    /\ WF_vars(KCloseReturn)

\* the callers keep receiving
SpecLive == InitLive /\ [][NextLive]_vars /\ FairLive

\* a caller may stop receiving
NextStop == NextLive \/ CallerStops("c1")

SpecStop == InitLive /\ [][NextStop]_vars /\ FairLive

\* The typed behaviours with a caller that may stop receiving.  The two
\* goroutines of ConsumeJSON (the reading loop and the decoding loop) and the
\* writer are scheduled; the reader's failures and the callers' steps are
\* under no obligation.
NextJsonStop == NextJson \/ JCallerStops("c1")

FairJson ==
    /\ WF_vars(\E err \in WriterResults : KWriteMessages("p1", err))
    /\ WF_vars(KReadMessage("c1"))
    /\ WF_vars(JRecv("c1")) /\ WF_vars(JForward("c1")) /\ WF_vars(JClose("c1"))

SpecJsonStop == InitKafka /\ [][NextJsonStop]_vars /\ FairJson

\* The behaviours of competing consumers: one publisher and two Consume calls
\* on the one topic, no context canceled, on the in-memory broker (Close
\* called up to MaxClose times) or the Kafka broker (the handle-lifecycle
\* behaviours).
NextCompete ==
    \/ PublishCall("p1", "q", FillBody, FALSE, MaxPub)
    \/ PublishSend("p1")
    \/ PublishPanic("p1")
    \/ \E c \in Cons : Consume(c, "q", FALSE)
    \/ \E c \in Cons : LoopRecv(c)
    \/ \E c \in Cons : Forward(c)
    \/ CloseLock
    \/ CloseQueue("q")
    \/ CloseReturn
    \/ NextHandles
SpecCompete == InitLive /\ [][NextCompete]_vars

\* The behaviours of the in-memory broker on which Close is never called and
\* every caller keeps receiving: one publisher, two Consume calls, contexts
\* canceled at will.  The scheduler runs the goroutines as in FairLive.
NextDeliver ==
    \/ \E canc \in BOOLEAN : PublishCall("p1", "q", FillBody, canc, MaxPub)
    \/ PublishSend("p1")
    \/ PublishCtxDone("p1")
    \/ CancelPublish("p1")
    \/ \E c \in Cons, canc \in BOOLEAN : Consume(c, "q", canc)
    \/ \E c \in Cons : CancelConsume(c)
    \/ \E c \in Cons : LoopRecv(c)
    \/ \E c \in Cons : LoopCtxDone(c)
    \/ \E c \in Cons : Forward(c)

FairDeliver ==
    /\ WF_vars(PublishSend("p1")) /\ WF_vars(PublishCtxDone("p1"))
    /\ \A c \in Cons :
        SF_vars(LoopRecv(c)) /\ SF_vars(LoopCtxDone(c)) /\ WF_vars(Forward(c))

SpecDeliver == InitMem /\ [][NextDeliver]_vars /\ FairDeliver

\* The behaviours on two topics with no Close.  In memory: the first
\* publisher fills the buffer of "q" and calls once more; only then does the
\* second publisher publish to "b", do consumers register, and may their
\* caller on "q" stop receiving.  On Kafka: one publisher and one consumer
\* per topic.
NextTwo ==
    \/ PublishCall("p1", "q", FillBody, FALSE, MaxFill)
    \/ Filled /\ PublishCall("p2", "b", FillBody, FALSE, MaxFill)
    \/ \E p \in Pubs : PublishSend(p)
    \/ Filled /\ (Consume("c1", "q", FALSE) \/ Consume("c2", "b", FALSE))
    \/ \E c \in Cons : LoopRecv(c)
    \/ \E c \in Cons : Forward(c)
    \/ CallerStops("c1")
    \/ KPublishCall("p1", "q", HandleBody, FALSE, MaxPub)
    \/ KPublishCall("p2", "b", HandleBody, FALSE, MaxPub)
    \/ \E p \in Pubs, err \in WriterResults : KWriteMessages(p, err)
    \/ KConsume("c1", "q", FALSE, FALSE) \/ KConsume("c2", "b", FALSE, FALSE)
    \/ \E c \in Cons : KReadMessage(c)
    \/ \E c \in Cons : KReadError(c, "backend")
    \/ \E c \in Cons : KForward(c)
SpecTwo == InitLive /\ [][NextTwo]_vars

\* The behaviours on two topics with Close: one publisher and two consumers,
\* each call on either topic, no context canceled.
NextIsolate ==
    \/ \E t \in Names : PublishCall("p1", t, FillBody, FALSE, MaxPub)
    \/ PublishSend("p1")
    \/ PublishPanic("p1")
    \/ \E c \in Cons, t \in Names : Consume(c, t, FALSE)
    \/ \E c \in Cons : LoopRecv(c)
    \/ \E c \in Cons : Forward(c)
    \/ CloseLock
    \/ \E t \in Names : CloseQueue(t)
    \/ CloseReturn
    \/ \E t \in Names : KPublishCall("p1", t, HandleBody, FALSE, MaxPub)
    \/ \E err \in WriterResults : KWriteMessages("p1", err)
    \/ \E c \in Cons, t \in Names : KConsume(c, t, FALSE, FALSE)
    \/ \E c \in Cons : KReadMessage(c)
    \/ \E c \in Cons, cause \in {"closed", "backend"} : KReadError(c, cause)
    \/ \E c \in Cons : KForward(c)
    \/ KCloseLock
    \/ \E t \in Names, ok \in BOOLEAN : KCloseWriter(t, ok)
    \/ \E t \in Names, ok \in BOOLEAN : KCloseReader(t, ok)
    \/ KCloseReturn
SpecIsolate == InitLive /\ [][NextIsolate]_vars

\* The buffer-filling behaviours with Close and a second topic: once the
\* buffer of "q" has been filled, the second publisher publishes to either
\* topic, a consumer registers on "q", and Close is called.
NextBound ==
    \/ PublishCall("p1", "q", FillBody, FALSE, MaxFill)
    \/ Filled /\ \E t \in Names : PublishCall("p2", t, FillBody, FALSE, MaxFill)
    \/ \E p \in Pubs : PublishSend(p)
    \/ \E p \in Pubs : PublishPanic(p)
    \/ Filled /\ Consume("c1", "q", FALSE)
    \/ LoopRecv("c1")
    \/ Forward("c1")
    \/ Filled /\ CloseLock
    \/ \E t \in Names : CloseQueue(t)
    \/ CloseReturn
SpecBound == InitFill /\ [][NextBound]_vars

\* ------------------------------------------------------------ the claims

\* the consumers registered on the queue that c consumes
OnTopic(t) == {c \in Cons : ConUsed(c) /\ cons[c].topic = t}
Sole(c) == OnTopic(cons[c].topic) = {c}

\* the messages for which Publish returned nil, enqueued on channel k, in order
RECURSIVE EnqueuedIn(_, _)
EnqueuedIn(l, k) ==
    IF l = <<>> THEN <<>>
    ELSE IF Head(l).ch = k THEN <<Head(l).msg>> \o EnqueuedIn(Tail(l), k)
    ELSE EnqueuedIn(Tail(l), k)
EnqueuedOn(k) == EnqueuedIn(log, k)

\* the message the goroutine of c holds at `out <- msg`
Held(c) == IF cons[c].pc = "fwd" THEN <<cons[c].msg>> ELSE <<>>

\* C1 (round trip): when a queue has a single consumer, the first value its
\* caller receives is the first message enqueued on the queue's buffer, with
\* the very bytes that were given to Publish.
C1_RoundTrip ==
    \A c \in Cons :
        (backend = "mem" /\ ConUsed(c) /\ Sole(c) /\ cons[c].recv # <<>> /\ EnqueuedOn(cons[c].q) # <<>>)
        => /\ cons[c].recv[1] = EnqueuedOn(cons[c].q)[1]
           /\ cons[c].recv[1].body = EnqueuedOn(cons[c].q)[1].body
           /\ Len(cons[c].recv[1].body) = Len(EnqueuedOn(cons[c].q)[1].body)

\* Publish("hi") returned nil on the fresh broker, the consumer registered
\* afterwards and received "hi" first.
C1_Witness ==
    /\ backend = "mem"
    /\ log # <<>> /\ log[1].msg.body = <<104, 105>>
    /\ cons["c1"].regAt = 1 /\ cons["c1"].q = log[1].ch
    /\ cons["c1"].recv # <<>> /\ cons["c1"].recv[1].body = <<104, 105>>

\* C2 (exactly once, whatever the registration order): with no Close and no
\* cancellation, every message enqueued for a queue's single consumer is in
\* exactly one place - received, held by the goroutine or still buffered - in
\* publication order, and the goroutine is still running.
C2_ExactlyOnce ==
    \A c \in Cons :
        (backend = "mem" /\ ConUsed(c) /\ Sole(c) /\ nclose = 0 /\ ~cons[c].canceled
            /\ Len(log) <= MaxRecv)
        => /\ cons[c].pc \in {"select", "fwd"}
           /\ EnqueuedOn(cons[c].q)
                = cons[c].recv \o Held(c) \o chans[cons[c].q].buf

\* The consumer registered first, the message was published afterwards and
\* has been received exactly once, with nothing left behind.
C2_Witness ==
    /\ backend = "mem" /\ nclose = 0 /\ ~cons["c1"].canceled /\ cons["c1"].pc = "select"
    /\ cons["c1"].regAt = 0
    /\ Len(log) = 1 /\ cons["c1"].recv = <<log[1].msg>>
    /\ chans[cons["c1"].q].buf = <<>>

\* C3 (cancellation precondition): a Publish call made with a canceled
\* context returns the cancellation error and is over, and the step that
\* makes the call changes neither the registry, nor a buffer, nor what the
\* writer or the AMQP channel has been handed.
C3_CanceledPublishSendsNothing ==
    /\ [](\A p \in Pubs :
            pubs[p].pre => pubs[p].pc = "idle" /\ pubs[p].ret = "canceled")
    /\ [][\A p \in Pubs :
            (/\ npub' = npub + 1 /\ pubs'[p].pre
             /\ \A o \in Pubs \ {p} : pubs'[o] = pubs[o])
            => UNCHANGED <<queues, chans, writers, ws, topics, amqp, log>>]_vars

\* The topic has a writer, and the call made with a canceled context has
\* returned the error without a write.
C3_Witness ==
    /\ backend = "kafka" /\ writers["q"] # 0 /\ ws[writers["q"]].writes = 0
    /\ pubs["p1"].pc = "write"
    /\ pubs["p2"].pre /\ pubs["p2"].ret = "canceled"

\* C4 (backpressure): a buffer never holds more than 100 messages; while a
\* buffer holds 100 and no message is taken from it, a Publish waiting to send
\* to it does not return nil - it keeps waiting, or returns the cancellation
\* error once its context is canceled; and a buffer changes only by a
\* consumer taking its first message or by a Publish appending its own
\* message to a buffer that has room.
C4_Backpressure ==
    /\ [](\A k \in 1..Len(chans) : Len(chans[k].buf) <= QueueCap)
    /\ [][\A p \in Pubs :
            (Blocked(p) /\ chans'[pubs[p].q].buf = chans[pubs[p].q].buf)
            => \/ pubs'[p] = pubs[p]
               \/ pubs'[p] = [pubs[p] EXCEPT !.canceled = TRUE]
               \/ pubs[p].canceled /\ pubs'[p] = [IdlePub EXCEPT !.ret = "canceled"]
               \/ panicked']_vars
    /\ [][\A k \in 1..Len(chans) :
            \/ chans'[k].buf = chans[k].buf
            \/ chans[k].buf # <<>> /\ chans'[k].buf = Tail(chans[k].buf)
            \/ /\ Len(chans[k].buf) < QueueCap
               /\ \E p \in Pubs :
                    /\ pubs[p].pc = "send" /\ pubs[p].q = k
                    /\ chans'[k].buf = Append(chans[k].buf, pubs[p].msg)
                    /\ pubs'[p].ret = "nil"]_vars

\* The buffer holds 100 messages and the next Publish is waiting.
C4_Witness ==
    /\ Blocked("p1") /\ ~pubs["p1"].canceled
    /\ Len(log) = QueueCap

\* the buffer or the reader that the goroutine of c reads has been closed
HandleClosed(c) ==
    \/ backend = "mem" /\ cons[c].pc # "idle" /\ chans[cons[c].q].closed
    \/ backend = "kafka" /\ cons[c].pc # "idle" /\ rs[cons[c].q].closes > 0

\* C5 (Close is terminal for consumers): once Close has returned, the
\* goroutine of every Consume call whose buffer or reader it closed
\* eventually returns and closes the output channel (unless a panic has
\* ended the program).
C5_CloseEndsConsumers ==
    \A c \in Cons :
        (closed >= 1 /\ HandleClosed(c)) ~> (cons[c].pc = "closed" \/ panicked)

\* C6 (no delivery after cancellation): a value the caller received after the
\* context was canceled never comes from a Publish call that started after
\* the cancellation.
C6_NoDeliveryAfterCancel ==
    \A c \in Cons :
        (backend = "mem" /\ cons[c].canceled) =>
            \A i \in 1..Len(cons[c].recv) : cons[c].recv[i].id <= cons[c].cancelAt

\* C7 (Close races): no goroutine panics and every registry entry names an
\* open channel, at most one queue per channel.
RegistryWellFormed ==
    /\ \A t \in Names : queues[t] \in 0..Len(chans)
    /\ \A t, u \in Names : (queues[t] # 0 /\ queues[t] = queues[u]) => t = u
    /\ mu = "" => \A t \in Names : queues[t] # 0 => ~chans[queues[t]].closed
C7_CloseNeverPanics == ~panicked /\ RegistryWellFormed

\* the values ConsumeJSON decodes from the payloads bs, those that fail
\* to decode left out
RECURSIVE Decoded(_)
Decoded(bs) ==
    IF bs = <<>> THEN <<>>
    ELSE IF Unmarshal(Head(bs).body).ok
         THEN <<Unmarshal(Head(bs).body).val>> \o Decoded(Tail(bs))
         ELSE Decoded(Tail(bs))

\* the value the decoding goroutine of c holds at `out <- v`
JHeld(c) == IF cons[c].jpc = "fwd" THEN <<cons[c].jval>> ELSE <<>>

\* C8 (malformed JSON): the typed channel is closed only once the byte
\* channel is, and what the caller has received or is being handed is the
\* decoding of the valid payloads taken from the byte channel, in order: a
\* payload that fails to decode is not forwarded and the valid ones after it
\* are.
C8_MalformedJsonSkipped ==
    \A c \in Cons :
        (cons[c].json /\ npub <= MaxRecv)
        => /\ cons[c].jpc = "closed" => cons[c].pc = "closed"
           /\ Decoded(cons[c].recv) = cons[c].jrecv \o JHeld(c)

\* The byte channel yielded {n and then "a"; the caller received a, and the
\* typed channel is still open.
C8_Witness ==
    /\ cons["c1"].json /\ cons["c1"].jpc = "range"
    /\ Len(cons["c1"].recv) = 2
    /\ cons["c1"].recv[1].body = <<123, 110>>
    /\ cons["c1"].recv[2].body = <<34, 97, 34>>
    /\ cons["c1"].jrecv = << <<97>> >>

\* C9 (no deadlocked goroutine on cancellation): once the context of a
\* Consume call is canceled, its goroutine eventually returns and closes the
\* output channel (unless a panic has ended the program).
C9_CancelEndsLoop ==
    \A c \in Cons :
        (cons[c].pc # "idle" /\ cons[c].canceled)
            ~> (cons[c].pc = "closed" \/ panicked)

\* C10 (FIFO): for a queue's single consumer, when one publisher's messages
\* m1 and m2 were enqueued on the consumer's buffer, m1 from the earlier call,
\* then m2 is received only after m1.
C10_Fifo ==
    \A c \in Cons :
        (backend = "mem" /\ ConUsed(c) /\ Sole(c)) =>
            \A a, b \in 1..Len(log) :
                (/\ log[a].ch = cons[c].q /\ log[b].ch = cons[c].q
                 /\ log[a].msg.pub = log[b].msg.pub
                 /\ log[a].msg.id < log[b].msg.id)
                => \A j \in 1..Len(cons[c].recv) :
                      cons[c].recv[j] = log[b].msg
                      => \E i \in 1..(j - 1) : cons[c].recv[i] = log[a].msg

\* One publisher's two messages, received in the order of its calls.
C10_Witness ==
    /\ backend = "mem" /\ Len(log) = 2 /\ log[1].msg.pub = log[2].msg.pub
    /\ log[1].msg.id < log[2].msg.id
    /\ cons["c1"].recv = <<log[1].msg, log[2].msg>>

\* C11 (consumer loop state machine): the goroutine of a Consume call closes
\* its output channel at most once, it has closed it exactly when it has
\* returned, it returns only from the select with its context canceled
\* (in-memory) or from a ReadMessage that returned an error (Kafka), and once
\* the channel is closed the goroutine neither receives, holds nor sends
\* anything.
C11_ClosedExactlyOnce ==
    /\ [](\A c \in Cons :
            /\ cons[c].closes <= 1
            /\ cons[c].closes = 1 <=> cons[c].pc = "closed"
            /\ cons[c].pc = "closed" => cons[c].msg = NilMsg)
    /\ [][\A c \in Cons :
            cons'[c].closes # cons[c].closes
            => \/ backend = "mem" /\ cons[c].pc = "select" /\ cons[c].canceled
               \/ /\ backend = "kafka" /\ cons[c].pc = "read"
                  /\ cons'[c].rerr /\ cons'[c].reads = cons[c].reads + 1]_vars
    /\ [][\A c \in Cons :
            cons[c].closes = 1
            => /\ cons'[c].pc = "closed" /\ cons'[c].closes = 1
               /\ cons'[c].recv = cons[c].recv /\ cons'[c].msg = NilMsg]_vars

\* The consumer forwarded a message, its context was canceled, and its
\* goroutine has returned and closed the output channel.
C11_Witness ==
    /\ backend = "mem" /\ cons["c1"].canceled
    /\ cons["c1"].recv # <<>> /\ cons["c1"].recv[1].id > 0
    /\ cons["c1"].pc = "closed" /\ cons["c1"].closes = 1

\* C12 (a read error ends the stream): when ReadMessage has returned an
\* error, Consume had returned a channel and a nil error, the goroutine has
\* returned and closed the channel holding no value, the step in which the
\* error came sent nothing to the caller, and no ReadMessage call and no send
\* follows.
C12_ReadErrorEndsStream ==
    /\ [](\A c \in Cons :
            cons[c].rerr
            => /\ cons[c].err = "nil"
               /\ cons[c].pc = "closed" /\ cons[c].closes = 1
               /\ cons[c].msg = NilMsg)
    /\ [][\A c \in Cons :
            (cons'[c].rerr /\ ~cons[c].rerr)
            => /\ cons[c].pc = "read"
               /\ cons'[c].recv = cons[c].recv
               /\ cons'[c].closes = cons[c].closes + 1]_vars
    /\ [][\A c \in Cons :
            cons[c].rerr
            => /\ cons'[c].reads = cons[c].reads
               /\ cons'[c].recv = cons[c].recv]_vars

\* The reader yielded a message, which the caller received, and its next
\* ReadMessage failed on its own: the context is not canceled and the reader
\* is not closed.
C12_Witness ==
    /\ backend = "kafka" /\ cons["c1"].rerr
    /\ ~cons["c1"].canceled /\ rs[cons["c1"].q].closes = 0
    /\ cons["c1"].reads = 2 /\ Len(cons["c1"].recv) = 1
    /\ cons["c1"].pc = "closed"

\* C13 (Kafka.Close closes every handle exactly once): no writer and no
\* reader ever has its Close called twice, and every handle the factories
\* made before a Close call returned has had its Close called once.
C13_HandlesClosedOnce ==
    /\ \A i \in 1..Len(ws) :
        /\ ws[i].closes <= 1
        /\ ws[i].born < closed => ws[i].closes = 1
    /\ \A i \in 1..Len(rs) :
        /\ rs[i].closes <= 1
        /\ rs[i].born < closed => rs[i].closes = 1

\* Two Consume calls shared the topic's reader, Close returned twice, a
\* second writer was made between the two calls, and each of the three
\* handles has been closed once.
C13_Witness ==
    /\ backend = "kafka" /\ closed = 2
    /\ cons["c1"].q = 1 /\ cons["c2"].q = 1
    /\ Len(ws) = 2 /\ Len(rs) = 1
    /\ ws[1].born = 0 /\ ws[2].born = 1
    /\ ws[1].closes = 1 /\ ws[2].closes = 1 /\ rs[1].closes = 1

\* C14 (Close returns nil): every Close call that has returned returned nil,
\* whatever the state it was called in and whether or not the Close of one of
\* its handles returned an error; and when it returns, every handle the
\* registry holds has been closed (Kafka), every registered buffer has been
\* closed and removed (in-memory), and the channel's and the connection's
\* Close have both been called for this call (AMQP).
C14_CloseReturnsNil ==
    /\ [](Len(rets) = closed /\ \A i \in 1..Len(rets) : rets[i] = "nil")
    /\ [][closed' = closed + 1
          => /\ rets' = Append(rets, "nil")
             /\ backend = "kafka" =>
                  /\ \A t \in Topics : writers[t] # 0 => ws[writers[t]].closes = 1
                  /\ \A t \in Topics : readers[t] # 0 => rs[readers[t]].closes = 1
             /\ backend = "mem" =>
                  /\ \A t \in Topics : queues[t] = 0
                  /\ \A k \in 1..Len(chans) : chans[k].closed
             /\ backend = "amqp" =>
                  /\ amqp.chCloses = closed + 1
                  /\ amqp.connCloses = closed + 1]_vars

\* Kafka: a publisher and a consumer are in the middle of their calls, the
\* writer's Close returned an error, the reader was closed all the same, and
\* Close returned nil.
C14_Witness ==
    /\ backend = "kafka" /\ rets = <<"nil">>
    /\ Len(ws) = 1 /\ ws[1].cerr /\ ws[1].closes = 1
    /\ Len(rs) = 1 /\ ~rs[1].cerr /\ rs[1].closes = 1
    /\ pubs["p1"].pc = "write" /\ cons["c1"].pc = "read"

\* C15 (the AMQP Close releases each resource once): the channel's Close
\* and the connection's Close are each called at most once over all the
\* Close calls made, and both have been called once a Close call has
\* returned.
C15_ReleasedOnce ==
    backend = "amqp" =>
        /\ amqp.chCloses <= 1 /\ amqp.connCloses <= 1
        /\ closed >= 1 => amqp.chCloses = 1 /\ amqp.connCloses = 1

\* the handles among hs that the factory made for topic t
MadeFor(hs, t) == {i \in 1..Len(hs) : hs[i].topic = t}

\* C16 (a topic's handles are never replaced): over a whole behaviour the
\* writer factory makes at most one writer and the reader factory at most
\* one reader for a topic, and the in-memory broker makes at most one buffer
\* for a queue (so no more buffers than there are queue names).
C16_OneHandlePerTopic ==
    /\ \A t \in Topics : Cardinality(MadeFor(ws, t)) <= 1
    /\ \A t \in Topics : Cardinality(MadeFor(rs, t)) <= 1
    /\ Len(chans) <= Cardinality(Topics)

\* C17 (the outcome of the in-memory Publish is atomic): the step in which
\* a Publish call returns nil appends the call's message to the buffer of its
\* queue; the step in which a call returns an error returns the cancellation
\* error and changes no buffer; and a buffer grows only in a step in which
\* the call whose message is appended returns nil.
C17_PublishAtomic ==
    /\ [](\A p \in Pubs : pubs[p].ret \in {"none", "nil", "canceled", "panic"})
    /\ [][\A p \in Pubs :
            (pubs[p].pc = "send" /\ pubs'[p].pc = "idle" /\ ~panicked')
            => \/ /\ pubs'[p].ret = "nil"
                  /\ chans'[pubs[p].q].buf = Append(chans[pubs[p].q].buf, pubs[p].msg)
               \/ /\ pubs'[p].ret = "canceled"
                  /\ chans' = chans]_vars
    /\ [][(npub' = npub + 1 /\ \A p \in Pubs : pubs'[p].pc = pubs[p].pc)
            => /\ chans' = chans
               /\ \E p \in Pubs : pubs'[p].ret = "canceled" /\ pubs'[p].pre]_vars
    /\ [][\A k \in 1..Len(chans) :
            Len(chans'[k].buf) > Len(chans[k].buf)
            => \E p \in Pubs :
                  /\ pubs[p].pc = "send" /\ pubs[p].q = k
                  /\ pubs'[p].pc = "idle" /\ pubs'[p].ret = "nil"
                  /\ chans'[k].buf = Append(chans[k].buf, pubs[p].msg)]_vars

\* One call returned nil and its message is in the buffer; another, whose
\* context was canceled while it was at the select, returned the
\* cancellation error and left nothing there.
C17_Witness ==
    /\ backend = "mem"
    /\ pubs["p1"].ret = "nil" /\ pubs["p1"].pc = "idle"
    /\ pubs["p2"].ret = "canceled" /\ ~pubs["p2"].pre /\ pubs["p2"].pc = "idle"
    /\ Len(chans) = 1 /\ Len(chans[1].buf) = 1 /\ chans[1].buf[1].pub = "p1"
    /\ npub = 2

\* C18 (Kafka.Publish on a write failure): the step in which a Publish call
\* that reached its writer returns is one call of WriteMessages on that
\* writer, the only one the call makes; when WriteMessages returned an error
\* the call returns the "write message" error wrapping that very error, and
\* when it returned nil the call returns nil.
C18_WriteErrorWrapped ==
    /\ [](\A p \in Pubs :
            /\ pubs[p].pc = "write" => pubs[p].nwrite = 0
            /\ pubs[p].ret = "write message"
               => pubs[p].nwrite = 1 /\ pubs[p].cause \in WriterResults \ {"nil"})
    /\ [][\A p \in Pubs :
            (pubs[p].pc = "write" /\ pubs'[p].pc # "write")
            => LET w == pubs[p].q IN
               /\ ws'[w].writes = ws[w].writes + 1
               /\ pubs'[p].pc = "idle" /\ pubs'[p].nwrite = 1
               /\ IF ws'[w].last = "nil"
                  THEN pubs'[p].ret = "nil" /\ pubs'[p].cause = ""
                  ELSE /\ pubs'[p].ret = "write message"
                       /\ pubs'[p].cause = ws'[w].last]_vars

\* WriteMessages returned "write fail" to the first call of the writer, and
\* Publish returned the error wrapping it after that single call.
C18_Witness ==
    /\ backend = "kafka"
    /\ pubs["p1"].ret = "write message" /\ pubs["p1"].cause = "write fail"
    /\ pubs["p1"].nwrite = 1
    /\ Len(ws) = 1 /\ ws[1].writes = 1 /\ ws[1].last = "write fail"
    /\ ws[1].closes = 0 /\ topics["q"] = <<>>

\* the PublishJSON calls whose value json.Marshal rejects
MarshalFails(v) == ~Marshal(v).ok

\* C19 (PublishJSON, marshal failure): a PublishJSON call whose value fails
\* to marshal returns the "marshal message" error in its one step, Publish is
\* not called (no Publish call is counted for it), no writer is looked up or
\* made for the topic, and nothing is written to the topic.
C19_MarshalErrorSkipsPublish ==
    /\ [](\A i \in 1..Len(jcalls) : MarshalFails(jcalls[i].v) => jcalls[i].id = 0)
    /\ [][(Len(jcalls') = Len(jcalls) + 1 /\ MarshalFails(jcalls'[Len(jcalls')].v))
          => LET p == jcalls'[Len(jcalls')].pub IN
             /\ pubs[p].pc = "idle" /\ pubs'[p].pc = "idle"
             /\ pubs'[p].ret = "marshal message" /\ pubs'[p].nwrite = 0
             /\ npub' = npub
             /\ writers' = writers /\ ws' = ws
             /\ topics' = topics /\ log' = log]_vars

\* PublishJSON was given a badType{} on a fresh broker: it returned the
\* marshal error, and the broker has no writer and the topic no message.
C19_Witness ==
    /\ backend = "kafka"
    /\ jcalls = <<[v |-> BadType, pub |-> "p1", id |-> 0]>>
    /\ pubs["p1"].ret = "marshal message"
    /\ npub = 0 /\ writers["q"] = 0 /\ ws = <<>> /\ topics["q"] = <<>>

\* the value PublishJSON was given when it handed message id to Publish
ValueOf(id) ==
    jcalls[CHOOSE i \in 1..Len(jcalls) : jcalls[i].id = id].v

\* C20 (JSON round trip): every value ConsumeJSON[string] delivers, or holds
\* at `out <- v`, for a payload that PublishJSON wrote and the reader
\* yielded, equals the value PublishJSON was given.
C20_JsonRoundTrip ==
    \A c \in Cons :
        cons[c].json
        => LET got == cons[c].jrecv \o JHeld(c) IN
           \A i \in 1..Len(got) :
               i <= Len(cons[c].recv)
               => got[i] = ValueOf(cons[c].recv[i].id).s

\* C21 (New of the AMQP-backed broker): a New call in which dialing or
\* opening the channel failed returns an error and no broker, none exists
\* afterwards, and when it was the channel that failed the connection the
\* call had dialed is closed by the time it returns; a call in which both
\* succeeded returns the broker and nil, on a connection left open.
C21_NewFailsFast ==
    /\ [](\A i \in 1..Len(amqp.news) :
            LET r == amqp.news[i] IN
            /\ r.cause # "none" => r.err # "nil" /\ ~r.broker
            /\ r.cause = "dial" => r.err = "connect rabbitmq" /\ r.conn = 0
            /\ r.cause = "channel" => r.err = "open channel" /\ r.conn \in amqp.dropped
            /\ r.cause = "none" => r.err = "nil" /\ r.broker /\ r.conn \notin amqp.dropped)
    /\ [][Len(amqp'.news) = Len(amqp.news) + 1
          => LET r == amqp'.news[Len(amqp'.news)] IN
             /\ amqp'.npc = ""
             /\ amqp'.broker = r.broker
             /\ r.cause = "dial" <=> amqp.npc = ""]_vars

\* New dialed a connection, could not open a channel on it, closed it and
\* returned the "open channel" error and no broker.
C21_Witness ==
    /\ backend = "amqp" /\ ~amqp.broker /\ amqp.npc = ""
    /\ amqp.news = <<[broker |-> FALSE, cause |-> "channel", err |-> "open channel",
                      conn |-> 1]>>
    /\ amqp.dials = 1 /\ amqp.dropped = {1}

\* C22 (Publish of the AMQP-backed broker, declaration failure): the step in
\* which QueueDeclare returns an error to a Publish call is the step in
\* which the call returns the "declare queue" error; PublishWithContext is
\* reached only by calls whose declaration succeeded, so such a call has
\* made no PublishWithContext call and no message of it is published.
C22_DeclareErrorSkipsPublish ==
    /\ [](\A p \in Pubs :
            /\ pubs[p].pc = "publish" => pubs[p].cause = "" /\ pubs[p].nwrite = 0
            /\ pubs[p].ret = "declare queue"
               => pubs[p].nwrite = 0 /\ pubs[p].cause = "decl")
    /\ [][\A p \in Pubs :
            (pubs[p].pc = "declare" /\ pubs'[p].pc # "declare" /\ pubs'[p].cause # "")
            => /\ pubs'[p].pc = "idle" /\ pubs'[p].ret = "declare queue"
               /\ amqp'.declares = amqp.declares + 1
               /\ amqp'.publishes = amqp.publishes
               /\ log' = log]_vars

\* QueueDeclare failed for the first Publish call of the broker: the call
\* returned the error and PublishWithContext has never been called.
C22_Witness ==
    /\ backend = "amqp" /\ amqp.broker
    /\ pubs["p1"].ret = "declare queue" /\ pubs["p1"].cause = "decl"
    /\ npub = 1 /\ amqp.declares = 1 /\ amqp.publishes = 0 /\ log = <<>>

\* C23 (Consume of the AMQP-backed broker, setup failure): a Consume call to
\* which QueueDeclare or ConsumeWithContext returned an error returns that
\* error, wrapped, and no channel: it has started no goroutine, nothing is
\* ever delivered for it and no close(out) is executed.
C23_ConsumeSetupFails ==
    /\ [](\A c \in Cons :
            /\ cons[c].cause # ""
               => /\ cons[c].pc = "failed" /\ ~cons[c].started
                  /\ cons[c].err = ConsumeError(cons[c].cause)
                  /\ cons[c].recv = <<>> /\ cons[c].closes = 0 /\ cons[c].reads = 0
            /\ cons[c].pc \in {"read", "fwd", "closed"} => cons[c].started)
    /\ [][\A c \in Cons :
            (cons[c].cause = "" /\ cons'[c].cause # "")
            => /\ cons[c].pc \in {"idle", "subscribe"}
               /\ cons'[c].cause = (IF cons[c].pc = "idle" THEN "declare" ELSE "consume")]_vars

\* QueueDeclare succeeded and ConsumeWithContext failed: Consume returned
\* the "consume" error and started nothing.
C23_Witness ==
    /\ backend = "amqp" /\ amqp.broker /\ amqp.declares = 1
    /\ cons["c1"].pc = "failed" /\ cons["c1"].cause = "consume"
    /\ cons["c1"].err = "consume" /\ ~cons["c1"].started

\* C24 (Consume with a canceled context): a Consume call made with a
\* context that is already canceled returns an error.
C24_CanceledConsumeFails ==
    [][\A c \in Cons :
          (cons[c].err = "none" /\ cons'[c].err # "none" /\ cons'[c].canceled)
          => cons'[c].err # "nil"]_vars

\* the messages handed to the backend and accepted by it
Published ==
    {log[i].msg : i \in 1..Len(log)}
    \cup UNION {{topics[t][i] : i \in 1..Len(topics[t])} : t \in Topics}

C26_Memoized ==
    nclose = 0 =>
        /\ \A t \in Topics :
              /\ Cardinality(MadeFor(ws, t)) = (IF writers[t] # 0 THEN 1 ELSE 0)
              /\ Cardinality(MadeFor(rs, t)) = (IF readers[t] # 0 THEN 1 ELSE 0)
        /\ Len(chans) = Cardinality({t \in Topics : queues[t] # 0})
        /\ \A p \in Pubs :
              /\ pubs[p].pc = "write" => pubs[p].q = writers[pubs[p].msg.topic]
              /\ pubs[p].pc = "send" => pubs[p].q = queues[pubs[p].msg.topic]
        /\ \A c \in Cons :
              /\ (backend = "kafka" /\ cons[c].pc # "idle")
                 => cons[c].q = readers[cons[c].topic]
              /\ (backend = "mem" /\ cons[c].pc # "idle")
                 => cons[c].q = queues[cons[c].topic]

\* Two Publish calls and a Consume call on the topic are in progress on the
\* Kafka broker, on the one writer and the one reader the factories made.
C26_Witness ==
    /\ backend = "kafka" /\ nclose = 0
    /\ pubs["p1"].pc = "write" /\ pubs["p2"].pc = "write"
    /\ pubs["p1"].q = 1 /\ pubs["p2"].q = 1
    /\ cons["c1"].pc = "read" /\ cons["c1"].q = 1
    /\ Len(ws) = 1 /\ Len(rs) = 1

\* C27 (Close never blocks indefinitely): under fair scheduling every Close
\* call that has started returns, whatever the publishers and the consumer
\* loops are blocked on.
C27_CloseReturns ==
    (nclose > closed) ~> (closed = nclose)

\* the Publish calls whose message is in buffer buf
InBuffer(buf) == {buf[i].id : i \in 1..Len(buf)}

\* C28 (cancellation during a blocked send): a Publish waiting on a full
\* buffer whose context has been canceled eventually returns; when it returns
\* while the buffer is still full it returns the publish-canceled error, the
\* buffer is unchanged and its message is not in it.
C28_BlockedSendCanceled ==
    /\ \A p \in Pubs : (Blocked(p) /\ pubs[p].canceled) ~> (pubs[p].pc = "idle")
    /\ [][\A p \in Pubs :
            (Blocked(p) /\ pubs'[p].pc = "idle")
            => /\ pubs[p].canceled
               /\ pubs'[p].ret = "canceled"
               /\ chans' = chans
               /\ pubs[p].msg.id \notin InBuffer(chans'[pubs[p].q].buf)]_vars

\* The 101st Publish waited on the full buffer, its context was canceled,
\* and it has returned the error; the buffer holds the first 100 messages.
C28_Witness ==
    /\ npub = QueueCap + 1
    /\ pubs["p1"].pc = "idle" /\ pubs["p1"].ret = "canceled"
    /\ Len(chans[1].buf) = QueueCap
    /\ InBuffer(chans[1].buf) = 1..QueueCap

\* the publishers whose last Publish call was made with a canceled context
PreCanceled == {p \in Pubs : pubs[p].pre}

\* C29 (a canceled Publish leaves no trace): a broker on which nothing has
\* been called but Publish with a context that was already canceled is as
\* New left it: no entry in the registry, no buffer, writer or reader made,
\* no QueueDeclare and no publish on the AMQP channel, nothing written, the
\* mutex free; and every one of the calls has returned the error.
C29_NoSideEffects ==
    (/\ npub >= 1 /\ npub = Cardinality(PreCanceled)
     /\ nclose = 0 /\ \A c \in Cons : cons[c].pc = "idle")
    => /\ queues = [t \in Names |-> 0] /\ chans = <<>>
       /\ writers = [t \in Names |-> 0] /\ ws = <<>>
       /\ readers = [t \in Names |-> 0] /\ rs = <<>>
       /\ topics = [t \in Names |-> <<>>] /\ log = <<>>
       /\ amqp = Built
       /\ mu = ""
       /\ \A p \in PreCanceled : pubs[p].pc = "idle" /\ pubs[p].ret = "canceled"

\* Two Publish calls with canceled contexts were made on the AMQP-backed
\* broker: both returned the error and QueueDeclare was never called.
C29_Witness ==
    /\ backend = "amqp" /\ npub = 2 /\ PreCanceled = Pubs
    /\ \A p \in Pubs : pubs[p].ret = "canceled"
    /\ amqp.declares = 0

\* C30 (the typed channel closes with the byte channel): the typed channel of
\* ConsumeJSON is never closed while the byte channel is open, stays closed
\* once closed, and is eventually closed once the byte channel is closed.
C30_TypedChannelCloses ==
    /\ [](\A c \in Cons : cons[c].jpc = "closed" => cons[c].pc = "closed")
    /\ [][\A c \in Cons : cons[c].jpc = "closed" => cons'[c].jpc = "closed"]_vars
    /\ \A c \in Cons :
          (cons[c].json /\ cons[c].pc = "closed") ~> (cons[c].jpc = "closed")

\* C31 (no spurious messages, in-memory backend): every value a caller has
\* received from a consumer channel is a payload that a Publish call
\* enqueued on the topic of that channel, Close or no Close.
C31_NoSpuriousMessages ==
    backend = "mem" =>
        \A c \in Cons : \A i \in 1..Len(cons[c].recv) :
            \E j \in 1..Len(log) :
                /\ log[j].msg = cons[c].recv[i]
                /\ log[j].msg.topic = cons[c].topic

\* the deliveries on topic t: the values the callers received from the
\* channels Consume returned for t
Deliveries(t) ==
    {<<c, i>> \in Cons \X (1..MaxRecv) : cons[c].topic = t /\ i <= Len(cons[c].recv)}

\* the messages written to topic t by Publish calls that returned nil
Successes(t) == {j \in 1..Len(log) : log[j].msg.topic = t}

\* a Consume call whose loop is running
Active(c) == cons[c].pc \in {"select", "read", "fwd"}

\* C32 (no duplication across competing consumers): while two Consume calls
\* are active on a topic, no two deliveries on it are of one message, and its
\* deliveries are not more than the successful publishes to it.
C32_NoDuplication ==
    \A t \in Topics :
        (\A c \in Cons : Active(c) /\ cons[c].topic = t)
        => /\ \A d, e \in Deliveries(t) :
                 cons[d[1]].recv[d[2]] = cons[e[1]].recv[e[2]] => d = e
           /\ Cardinality(Deliveries(t)) <= Cardinality(Successes(t))

\* C33 (no use after close, Kafka): no step calls WriteMessages on a writer
\* whose Close has been called by Kafka.Close, and no step of a consumer loop
\* calls ReadMessage on a reader whose Close has been called.
C33_NoUseAfterClose ==
    [][/\ \A w \in 1..Len(ws) : ws[w].closes > 0 => ws'[w].writes = ws[w].writes
       /\ \A c \in Cons :
            (cons[c].pc = "read" /\ rs[cons[c].q].closes > 0)
            => cons'[c].reads = cons[c].reads]_vars

\* the j-th message enqueued has been sent on some consumer channel of its
\* topic
Delivered(j) ==
    /\ j <= Len(log)
    /\ \E c \in Cons : \E i \in 1..Len(cons[c].recv) :
          cons[c].recv[i] = log[j].msg /\ cons[c].topic = log[j].msg.topic

\* C34 (eventual delivery, in-memory backend): with no Close and callers
\* that keep receiving, when a consumer registered on the topic is never
\* canceled, every message for which Publish returned nil is eventually sent
\* on some consumer channel of the topic.
C34_EventualDelivery ==
    \A c \in Cons : \A j \in 1..MaxPub :
        [](~cons[c].canceled)
        => ((j <= Len(log) /\ cons[c].pc # "idle" /\ cons[c].topic = log[j].msg.topic)
              ~> Delivered(j))

\* Two messages were enqueued, the first consumer has been canceled and has
\* ended, and the second consumer, never canceled, has one of them
\* while the other went out through the first.
C34_Witness ==
    /\ Len(log) = 2 /\ Delivered(1) /\ Delivered(2)
    /\ cons["c1"].canceled /\ cons["c1"].pc = "closed" /\ Len(cons["c1"].recv) = 1
    /\ ~cons["c2"].canceled /\ Len(cons["c2"].recv) = 1

\* a consumer loop waiting at `out <- msg` for a caller that has stopped
\* receiving
StuckForward(c) == cons[c].pc = "fwd" /\ ~cons[c].listening

\* C35 (the registry lock is not held across a blocking operation): while a
\* Publish waits on the full buffer of "q", or a consumer loop waits on its
\* output channel, or a Kafka Publish is in WriteMessages, the mutex is free,
\* and a Publish or a Consume on topic "b" can take each of its steps: the
\* call gets through its locked lookup, and the send or write of a Publish
\* to "b" can complete.
C35_LockNotHeld ==
    /\ (backend = "mem" /\ (Blocked("p1") \/ \E c \in Cons : StuckForward(c)))
       => /\ mu = ""
          /\ (pubs["p2"].pc = "idle" /\ npub < MaxFill)
             => ENABLED PublishCall("p2", "b", FillBody, FALSE, MaxFill)
          /\ pubs["p2"].pc = "send" => ENABLED PublishSend("p2")
          /\ \A c \in Cons : (cons[c].pc = "idle" /\ \A e \in Earlier(c) : ConUsed(e))
                             => ENABLED Consume(c, "b", FALSE)
    /\ (backend = "kafka" /\ pubs["p1"].pc = "write")
       => /\ mu = ""
          /\ (pubs["p2"].pc = "idle" /\ npub < MaxPub)
             => ENABLED KPublishCall("p2", "b", HandleBody, FALSE, MaxPub)
          /\ pubs["p2"].pc = "write" => ENABLED KWriteMessages("p2", "nil")
          /\ \A c \in Cons : (cons[c].pc = "idle" /\ \A e \in Earlier(c) : ConUsed(e))
                             => ENABLED KConsume(c, "b", FALSE, FALSE)

\* The first publisher is waiting on the full buffer of "q", while a
\* Publish to "b" has returned nil and a caller has received its message
\* from a consumer of "b" registered meanwhile.
C35_Witness ==
    /\ backend = "mem" /\ Blocked("p1")
    /\ pubs["p2"].ret = "nil"
    /\ \E c \in Cons : cons[c].topic = "b" /\ cons[c].recv # <<>>
                       /\ cons[c].recv[1].topic = "b"

\* C36 (topic isolation): a message published to one topic is never held
\* for, nor received from, a channel that Consume returned for another
\* topic.
C36_TopicIsolation ==
    \A c \in Cons :
        /\ \A i \in 1..Len(cons[c].recv) :
              cons[c].recv[i].id # 0 => cons[c].recv[i].topic = cons[c].topic
        /\ (cons[c].pc = "fwd" /\ cons[c].msg.id # 0)
              => cons[c].msg.topic = cons[c].topic

\* Messages were published to both topics, each topic has a consumer, and
\* each caller has received the message of its own topic, a Close having
\* run in between.
C36_Witness ==
    /\ nclose >= 1
    /\ cons["c1"].topic # cons["c2"].topic
    /\ \A c \in Cons : /\ cons[c].recv # <<>>
                       /\ cons[c].recv[1].id # 0
                       /\ cons[c].recv[1].topic = cons[c].topic

\* C37 (buffer bound and registry, in-memory backend): every buffer holds
\* between 0 and 100 messages, and every name in the registry maps to one
\* buffer, which exists, is open, and is the buffer of no other name.
C37_BufferBound ==
    /\ \A k \in 1..Len(chans) : Len(chans[k].buf) \in 0..QueueCap
    /\ \A t \in Names :
          queues[t] # 0 =>
             /\ queues[t] \in 1..Len(chans)
             /\ ~chans[queues[t]].closed
             /\ \A u \in Names : queues[u] = queues[t] => u = t

\* The buffer of "q" was filled to 100 and closed by Close; "q" now names a
\* second, open buffer, and "b" another.
C37_Witness ==
    /\ closed = 1
    /\ Len(chans) = 3 /\ chans[1].closed /\ Len(chans[1].buf) = QueueCap
    /\ queues["q"] # 0 /\ queues["b"] # 0
    /\ Len(chans[queues["q"]].buf) = 1

\* Close has returned and no other Close has been called: the buffers made
\* before it are closed, those made after it are open
AfterClose1 == backend = "mem" /\ closed = 1 /\ nclose = 1
Fresh(k) == ~chans[k].closed
PublishedAfter == {log[j].msg : j \in {i \in 1..Len(log) : Fresh(log[i].ch)}}

\* C38 (Close detaches existing consumers, in-memory backend): once Close
\* has returned, a Publish gets a buffer made after the Close and its send
\* can complete; a consumer registered after the Close, alone on its buffer,
\* has or is about to get every message published to it, in order; and a
\* consumer registered before the Close neither holds nor has delivered a
\* message published after it.
C38_CloseDetaches ==
    AfterClose1 =>
        /\ \A t \in Names : queues[t] # 0 => Fresh(queues[t])
        /\ \A p \in Pubs :
              (pubs[p].pc = "send" /\ Fresh(pubs[p].q)) => CanSend(chans[pubs[p].q])
        /\ \A c \in Cons :
              (/\ ConUsed(c) /\ Fresh(cons[c].q)
               /\ \A d \in Cons \ {c} : ConUsed(d) => cons[d].q # cons[c].q)
              => cons[c].recv \o Held(c) \o chans[cons[c].q].buf
                    = EnqueuedOn(cons[c].q)
        /\ \A c \in Cons :
              (ConUsed(c) /\ ~Fresh(cons[c].q))
              => /\ \A i \in 1..Len(cons[c].recv) : cons[c].recv[i] \notin PublishedAfter
                 /\ \A i \in 1..Len(Held(c)) : Held(c)[i] \notin PublishedAfter

\* The first consumer registered before the Close and the second after it;
\* a Publish made after the Close has returned nil, and its message has been
\* received by the second consumer's caller and not by the first's.
C38_Witness ==
    /\ AfterClose1
    /\ \A c \in Cons : ConUsed(c)
    /\ ~Fresh(cons["c1"].q) /\ Fresh(cons["c2"].q)
    /\ pubs["p1"].ret = "nil" /\ PublishedAfter # {}
    /\ Len(cons["c2"].recv) = 1 /\ cons["c2"].recv[1] \in PublishedAfter
    /\ cons["c1"].recv # <<>>

====
